---- MODULE Spec2Model ----
(***************************************************************************)
(* State-machine model of the chatbot orchestration core:                  *)
(*   - the session store (core/session_manager.py, core/models.py)         *)
(*   - the context builder (core/context_manager.py)                       *)
(*   - the provider registry (llm/llm_manager.py, openai_provider.py)      *)
(*   - the server registry (mcp/mcp_manager.py, generic_mcp_server.py)     *)
(***************************************************************************)
EXTENDS Integers, Sequences, FiniteSets, TLC

(***************************************************************************)
(* Bounds and configuration values of the model.                           *)
(***************************************************************************)
MaxTime == 2                 \* the clock runs 0..MaxTime
MaxSessions == 3             \* session records created in a run of the full store
MaxCapSessions == 4          \* session records created in a run of the cap scenario
max_sessions_per_user == 2   \* config "max_sessions_per_user"
session_timeout == 1         \* config "timeout", in clock ticks
MaxSweepSessions == 2        \* session records created in a run of the sweep scenario
MaxUpdates == 2              \* field-changing store updates in a run

Users == {"u1", "u2"}
StoreUsers == {"u1"}         \* the users of the full-store scenario
ServerNames == {"fs"}
ProviderNames == {"default", "openai"}
MetaValues == {"m0", "m1"}

VARIABLES
    now,        \* datetime.utcnow(), as a tick counter
    sessions,   \* SessionManager.sessions: records in insertion order, id = index
    budget,     \* what a run may still do: records to create, updates to make
    ret         \* the last store operation, its argument and what it returned

storeVars == <<now, sessions, budget, ret>>

VARIABLES
    providers,  \* LLMManager.providers: provider records in dict (insertion) order
    llm_call,   \* the generate_response dispatch in progress or last finished
    servers,    \* MCPManager.servers: server-handle records in dict order
    mcp_call,   \* the call_tool dispatch in progress or last finished
    reg_budget, \* what a run may still do: entries to add, dispatches or passes to start
    requests    \* per request in flight: its position and the Context it holds

VARIABLES
    health_check_task,  \* per manager: its health_check_task attribute
    mgr_ret,            \* the last manager operation, its inputs, calls and result
    priority,           \* a provider-registry configuration and its priority list
    transports          \* per MCP transport object: its request counter and last exchange

VARIABLES
    event_loop,         \* the asyncio event loop: the blocking call its thread is in
    router,             \* one MessageProcessor call: its inputs, its calls, its Response
    uuid_count          \* how many uuid4 values have been drawn

VARIABLES
    cleanup_task,       \* SessionManager.cleanup_task: none, running or cancelled
    session_closed      \* per session id: the session_closed events published for it

VARIABLES
    iteration           \* MCPManager: the walk over the servers dict in progress, if any

lifeVars == <<cleanup_task, session_closed>>

llmVars == <<providers, llm_call>>
mcpVars == <<servers, mcp_call>>
mgrVars == <<health_check_task, mgr_ret>>
regVars ==
    <<providers, llm_call, servers, mcp_call, reg_budget, health_check_task, mgr_ret>>
\* what the session store's own operations leave alone
\* what the session manager's operations leave alone
nonLifeVars ==
    <<regVars, requests, priority, transports, event_loop, router, uuid_count, iteration>>
nonStoreVars == <<nonLifeVars, lifeVars>>
\* what the context builder's operations leave alone
nonCtxVars == <<regVars, priority, transports, event_loop, router, lifeVars, iteration>>
\* what the two registries' operations leave alone
nonMgrVars ==
    <<now, sessions, budget, ret, requests, priority, transports, event_loop, router,
      uuid_count, lifeVars>>
nonRegVars == <<nonMgrVars, iteration>>

vars ==
    <<now, sessions, budget, ret, providers, llm_call, servers, mcp_call, reg_budget,
      requests, health_check_task, mgr_ret, priority, transports, event_loop, router,
      uuid_count, cleanup_task, session_closed, iteration>>

(***************************************************************************)
(* core/models.py: Session                                                 *)
(***************************************************************************)
\* The context blob is a dict: a function whose domain is the set of keys.
EmptyDict == [k \in {} |-> 0]
\* correlation_id: Optional[str] = None
NoCorrelationId == <<"None">>
\* dict.get(key, default)
DictGet(d, key, default) == IF key \in DOMAIN d THEN d[key] ELSE default

NewSession(user_id, metadata) ==
    [user_id |-> user_id,
     created_at |-> now,
     last_activity |-> now,
     context |-> EmptyDict,
     mcp_servers |-> <<>>,
     llm_provider |-> "default",
     is_active |-> TRUE,
     metadata |-> metadata]

\* A mutation of is_expired: one tick too lenient.
is_expired_lenient(s) ==
    IF ~s.is_active THEN TRUE ELSE (now - s.last_activity) > session_timeout + 1

is_expired(s) ==
    IF ~s.is_active THEN TRUE ELSE (now - s.last_activity) > session_timeout

update_activity(s) == [s EXCEPT !.last_activity = now]

SeqContains(q, x) == \E i \in 1..Len(q) : q[i] = x

SeqRemoveFirst(q, x) ==
    LET i == CHOOSE j \in 1..Len(q) : q[j] = x /\ \A k \in 1..(j-1) : q[k] # x
    IN  SubSeq(q, 1, i-1) \o SubSeq(q, i+1, Len(q))

add_mcp_server(s, server_name) ==
    IF SeqContains(s.mcp_servers, server_name) THEN s
    ELSE [s EXCEPT !.mcp_servers = Append(@, server_name)]

remove_mcp_server(s, server_name) ==
    IF SeqContains(s.mcp_servers, server_name)
    THEN [s EXCEPT !.mcp_servers = SeqRemoveFirst(@, server_name)]
    ELSE s

(***************************************************************************)
(* core/session_manager.py: SessionManager                                 *)
(***************************************************************************)
SessionIds == 1..Len(sessions)
CallerIds == 1..(Len(sessions) + 1)   \* ids a caller presents: all stored, one unknown

\* _get_user_sessions: ids of all records of the user, inactive ones included.
_get_user_sessions(ss, user_id) == {i \in 1..Len(ss) : ss[i].user_id = user_id}

\* min(user_sessions, key=created_at): the first minimal record in dict order.
OldestOf(ss, ids) ==
    CHOOSE i \in ids :
        \A j \in ids : \/ ss[i].created_at < ss[j].created_at
                       \/ (ss[i].created_at = ss[j].created_at /\ i <= j)

\* close_session's effect on the store.
CloseIn(ss, sid) ==
    IF sid \in 1..Len(ss) THEN [ss EXCEPT ![sid].is_active = FALSE] ELSE ss

RECURSIVE CloseAll(_, _)
CloseAll(ss, ids) ==
    IF ids = {} THEN ss
    ELSE LET i == CHOOSE j \in ids : TRUE
         IN  CloseAll(CloseIn(ss, i), ids \ {i})

\* A mutation of get_session: any stored record is returned, whatever its
\* is_active flag and its idle time.
GetInAny(ss, sid) ==
    IF sid \in 1..Len(ss)
    THEN [store |-> [ss EXCEPT ![sid] = update_activity(@)], found |-> TRUE]
    ELSE [store |-> ss, found |-> FALSE]

\* get_session's effect on the store and whether it returns the session.
GetIn(ss, sid) ==
    IF sid \in 1..Len(ss) /\ ss[sid].is_active
    THEN IF is_expired(ss[sid])
         THEN [store |-> CloseIn(ss, sid), found |-> FALSE]
         ELSE [store |-> [ss EXCEPT ![sid] = update_activity(@)], found |-> TRUE]
    ELSE [store |-> ss, found |-> FALSE]

Ret(op, arg, val) == [op |-> op, arg |-> arg, val |-> val]

Tick ==
    /\ now < MaxTime
    /\ now' = now + 1
    /\ ret' = Ret("tick", 0, "none")
    /\ UNCHANGED <<sessions, budget>>

\* create_session's effect on the store
CreateIn(ss, user_id, metadata) ==
    LET user_sessions == _get_user_sessions(ss, user_id)
        afterEvict ==
            IF Cardinality(user_sessions) >= max_sessions_per_user
            THEN CloseIn(ss, OldestOf(ss, user_sessions))
            ELSE ss
    IN  Append(afterEvict, NewSession(user_id, metadata))

create_session(user_id, metadata) ==
    /\ budget.creates > 0
    /\ sessions' = CreateIn(sessions, user_id, metadata)
    /\ ret' = Ret("create_session", Len(sessions) + 1, "session")
    /\ budget' = [budget EXCEPT !.creates = @ - 1]
    /\ UNCHANGED now

get_session(sid) ==
    /\ sessions' = GetIn(sessions, sid).store
    /\ ret' = Ret("get_session", sid,
                  IF GetIn(sessions, sid).found THEN "session" ELSE "none")
    /\ UNCHANGED <<now, budget>>

close_session(sid) ==
    /\ sessions' = CloseIn(sessions, sid)
    /\ ret' = Ret("close_session", sid,
                  IF sid \in SessionIds THEN "true" ELSE "false")
    /\ UNCHANGED <<now, budget>>

\* get_user_sessions: closes the user's expired records, returns the others.
ExpiredOfUser(ss, user_id) ==
    {i \in _get_user_sessions(ss, user_id) : is_expired(ss[i])}

get_user_sessions(user_id) ==
    /\ sessions' = CloseAll(sessions, ExpiredOfUser(sessions, user_id))
    /\ ret' = Ret("get_user_sessions", 0, "list")
    /\ UNCHANGED <<now, budget>>

\* update_session: every key of the updates names an attribute of Session, so
\* hasattr holds and the value replaces the attribute (setattr).
SetAttr(s, key, value) ==
    CASE key = "context" -> [s EXCEPT !.context = value]
      [] key = "metadata" -> [s EXCEPT !.metadata = value]
      [] key = "llm_provider" -> [s EXCEPT !.llm_provider = value]
      [] OTHER -> s

\* A mutation of update_session: it looks the record up in the map directly
\* instead of through get_session.
UpdateInDirect(ss, sid, key, value) ==
    IF sid \notin 1..Len(ss) THEN [store |-> ss, ok |-> FALSE]
    ELSE [store |-> [ss EXCEPT ![sid] = update_activity(SetAttr(@, key, value))],
          ok |-> TRUE]

UpdateIn(ss, sid, key, value) ==
    LET g == GetIn(ss, sid)
    IN  IF ~g.found THEN [store |-> g.store, ok |-> FALSE]
        ELSE [store |-> [g.store EXCEPT
                            ![sid] = update_activity(SetAttr(@, key, value))],
              ok |-> TRUE]

update_session(sid, key, value) ==
    /\ budget.updates > 0
    /\ budget' = [budget EXCEPT !.updates = @ - 1]
    /\ sessions' = UpdateIn(sessions, sid, key, value).store
    /\ ret' = Ret("update_session", sid,
                  IF UpdateIn(sessions, sid, key, value).ok THEN "true" ELSE "false")
    /\ UNCHANGED now

add_mcp_server_to_session(sid, server_name) ==
    /\ budget.updates > 0
    /\ budget' = [budget EXCEPT !.updates = @ - 1]
    /\ LET g == GetIn(sessions, sid)
       IN  /\ sessions' = IF g.found
                          THEN [g.store EXCEPT
                                  ![sid] = update_activity(add_mcp_server(@, server_name))]
                          ELSE g.store
           /\ ret' = Ret("add_mcp_server_to_session", sid,
                         IF g.found THEN "true" ELSE "false")
    /\ UNCHANGED now

remove_mcp_server_from_session(sid, server_name) ==
    /\ budget.updates > 0
    /\ budget' = [budget EXCEPT !.updates = @ - 1]
    /\ LET g == GetIn(sessions, sid)
       IN  /\ sessions' = IF g.found
                          THEN [g.store EXCEPT
                                  ![sid] = update_activity(remove_mcp_server(@, server_name))]
                          ELSE g.store
           /\ ret' = Ret("remove_mcp_server_from_session", sid,
                         IF g.found THEN "true" ELSE "false")
    /\ UNCHANGED now

set_session_llm_provider(sid, provider) ==
    /\ budget.updates > 0
    /\ budget' = [budget EXCEPT !.updates = @ - 1]
    /\ LET g == GetIn(sessions, sid)
       IN  /\ sessions' = IF g.found
                          THEN [g.store EXCEPT
                                  ![sid] = update_activity([@ EXCEPT !.llm_provider = provider])]
                          ELSE g.store
           /\ ret' = Ret("set_session_llm_provider", sid,
                         IF g.found THEN "true" ELSE "false")
    /\ UNCHANGED now

\* A mutation of the sweep: it stops after the first expired record.
ExpiredFirstOnly(ss) ==
    LET e == {i \in 1..Len(ss) : is_expired(ss[i])}
    IN  IF e = {} THEN {} ELSE {CHOOSE i \in e : \A j \in e : i <= j}

\* _cleanup_expired_sessions: the ids it collects, then closes.
ExpiredIds(ss) == {i \in 1..Len(ss) : is_expired(ss[i])}

_cleanup_expired_sessions ==
    /\ sessions' = CloseAll(sessions, ExpiredIds(sessions))
    /\ ret' = Ret("sweep", 0, "none")
    /\ UNCHANGED <<now, budget>>

(***************************************************************************)
(* llm/llm_provider.py, llm/providers/openai_provider.py: a provider       *)
(***************************************************************************)
LLMNames == {"openai", "anthropic", "ollama"}
default_provider == "openai"            \* config "default_provider"
fallback_providers == <<"anthropic">>   \* config "fallback_providers"
MaxCalls == 2                \* dispatches started in a run
MaxAdds == 3                 \* entries added to a registry in a run

\* What the upstream does with one chat-completion request.
CallOutcomes == {"ok", "http_error", "exception"}

\* session is the aiohttp client handle: 0 is None, k the k-th handle this
\* provider object has created (made counts them).
NewProvider(name) ==
    [name |-> name, is_connected |-> FALSE, session |-> 0, made |-> 0,
     request_count |-> 0, error_count |-> 0]

update_usage_stats(p, success) ==
    [p EXCEPT !.request_count = @ + 1,
              !.error_count = IF success THEN @ ELSE @ + 1]

\* connect: a new client handle is created first; is_connected is set only if
\* the list-models probe returns a non-empty list (ok).
provider_connect(p, ok) ==
    LET q == [p EXCEPT !.made = @ + 1, !.session = p.made + 1]
    IN  IF ok THEN [q EXCEPT !.is_connected = TRUE] ELSE q

provider_disconnect(p) == [p EXCEPT !.session = 0, !.is_connected = FALSE]

\* generate_response of one provider: the provider afterwards, whether the call
\* raised, and the error or the generated text.
provider_generate(p, outcome) ==
    IF ~p.is_connected \/ p.session = 0
    THEN [prov |-> p, raised |-> TRUE, val |-> "not_connected"]
    ELSE CASE outcome = "ok" ->
                [prov |-> update_usage_stats(p, TRUE), raised |-> FALSE,
                 val |-> p.name]
           [] outcome = "http_error" ->
                \* counted in the non-200 branch and again in the except clause
                [prov |-> update_usage_stats(update_usage_stats(p, FALSE), FALSE),
                 raised |-> TRUE, val |-> "http_error"]
           [] OTHER ->
                [prov |-> update_usage_stats(p, FALSE), raised |-> TRUE,
                 val |-> "exception"]

(***************************************************************************)
(* The dispatch loop shared in shape by both registries: the record of one *)
(* call.  log lists the candidates taken from the list so far, each with   *)
(* what happened: "skipped" (reconnect failed), "failed" (call raised) or  *)
(* "ok"; snap is the registry map when the call started.                   *)
(***************************************************************************)
NoError == [name |-> "none", kind |-> "none"]
CandError(name, kind) == [name |-> name, kind |-> kind]

IdleCall ==
    [pc |-> "idle", target |-> "none", todo |-> <<>>, log |-> <<>>,
     last_error |-> NoError, result |-> "none", error |-> "none", snap |-> <<>>]

StartCall(target, todo, snap) ==
    [pc |-> "loop", target |-> target, todo |-> todo, log |-> <<>>,
     last_error |-> NoError, result |-> "none", error |-> "none", snap |-> snap]

RaiseCall(target, error, snap) ==
    [pc |-> "raised", target |-> target, todo |-> <<>>, log |-> <<>>,
     last_error |-> NoError, result |-> "none", error |-> error, snap |-> snap]

LogEntry(name, outcome, kind) == [name |-> name, outcome |-> outcome, kind |-> kind]

\* "if not await x.connect(): continue"
OnSkip(call, name) ==
    [call EXCEPT !.todo = Tail(@),
                 !.log = Append(@, LogEntry(name, "skipped", "connect_failed"))]

\* "return response" / "return result"
OnSuccess(call, name, val) ==
    [call EXCEPT !.pc = "returned", !.result = val,
                 !.log = Append(@, LogEntry(name, "ok", "none"))]

\* A mutation of the except clause: only the first error is kept.
OnFailureKeepFirst(call, name, kind) ==
    [call EXCEPT !.todo = Tail(@),
                 !.last_error = IF @ = NoError THEN CandError(name, kind) ELSE @,
                 !.log = Append(@, LogEntry(name, "failed", kind))]

\* "except Exception as e: last_error = e ... continue"
OnFailure(call, name, kind) ==
    [call EXCEPT !.todo = Tail(@), !.last_error = CandError(name, kind),
                 !.log = Append(@, LogEntry(name, "failed", kind))]

\* "raise RuntimeError(f'All ... failed. Last error: {last_error}')"
OnExhausted(call) ==
    [call EXCEPT !.pc = "raised", !.error = "all_failed"]

Names(q) == [i \in 1..Len(q) |-> q[i].name]
IndexOf(q, name) == CHOOSE i \in 1..Len(q) : q[i].name = name
Registered(q, name) == \E i \in 1..Len(q) : q[i].name = name

\* dict assignment: a known key keeps its place, a new key goes last.
PutEntry(q, e) ==
    IF Registered(q, e.name) THEN [q EXCEPT ![IndexOf(q, e.name)] = e]
    ELSE Append(q, e)

RECURSIVE SeqFilterNew(_, _, _)
\* the names of src, in order, that are registered and not yet in acc
SeqFilterNew(src, acc, q) ==
    IF src = <<>> THEN acc
    ELSE SeqFilterNew(Tail(src),
                      IF Registered(q, Head(src)) /\ ~SeqContains(acc, Head(src))
                      THEN Append(acc, Head(src)) ELSE acc,
                      q)

(***************************************************************************)
(* llm/llm_manager.py: LLMManager                                          *)
(***************************************************************************)
MaxFallbacks == 2            \* length of a configured fallback list

\* The return value of a manager operation: what it was given (name, valid,
\* connected), the calls it made on entries in order (ops), what it returned.
MgrRet(op, registry, name, valid, connected, val, ops) ==
    [op |-> op, registry |-> registry, name |-> name, valid |-> valid,
     connected |-> connected, val |-> val, ops |-> ops]

\* A mutation of the priority list: the fallbacks are placed before the default.
PriorityListFallbacksFirst(q, default, fallbacks) ==
    SeqFilterNew(Names(q),
                 SeqFilterNew(<<default>>,
                              SeqFilterNew(fallbacks, <<>>, q), q), q)

\* The body of _get_provider_priority_list for a configuration: the default,
\* then the fallbacks, then the map's keys; each only if registered and not
\* yet listed.
PriorityList(q, default, fallbacks) ==
    SeqFilterNew(Names(q),
                 SeqFilterNew(fallbacks,
                              SeqFilterNew(<<default>>, <<>>, q), q), q)

_get_provider_priority_list(q) == PriorityList(q, default_provider, fallback_providers)

\* _get_provider_priority_list called on a manager with the configuration and
\* the map at hand.
priority_list_call ==
    /\ reg_budget.registry = "llm"
    /\ priority' = [priority EXCEPT
                      !.snap = Names(providers),
                      !.list = PriorityList(providers, priority.default,
                                            priority.fallbacks)]
    /\ UNCHANGED <<providers, llm_call, reg_budget, mgr_ret>>

\* add_provider: the provider is registered only if the configuration passes
\* validate_provider_config (valid) and its connect succeeds (ok); connect is
\* not attempted on an invalid configuration.  Membership changes only between
\* dispatches.
add_provider(name, valid, ok) ==
    /\ llm_call.pc # "loop"
    /\ reg_budget.registry = "llm"
    /\ reg_budget.adds > 0
    /\ reg_budget' = [reg_budget EXCEPT !.adds = @ - 1]
    /\ providers' = IF valid /\ ok
                    THEN PutEntry(providers, provider_connect(NewProvider(name), TRUE))
                    ELSE providers
    /\ mgr_ret' = MgrRet("add_provider", "llm", name, valid, valid /\ ok,
                         valid /\ ok, <<>>)
    /\ UNCHANGED llm_call

\* generate_response up to the loop: the candidate list, or an early raise.
llm_generate_start(target) ==
    /\ llm_call.pc # "loop"
    /\ reg_budget.registry = "llm"
    /\ reg_budget.calls > 0
    /\ reg_budget' = [reg_budget EXCEPT !.calls = @ - 1]
    /\ llm_call' =
         IF providers = <<>> THEN RaiseCall(target, "no_providers", providers)
         ELSE IF target # "none"
              THEN IF ~Registered(providers, target)
                   THEN RaiseCall(target, "not_found", providers)
                   ELSE StartCall(target, <<target>>, providers)
              ELSE StartCall(target, _get_provider_priority_list(providers), providers)
    /\ UNCHANGED providers

\* A mutation of the loop: after a failed call the candidate is left as the
\* call left it.
llm_generate_try_no_reconnect(co1, outcome, co2) ==
    /\ llm_call.pc = "loop"
    /\ llm_call.todo # <<>>
    /\ LET name == Head(llm_call.todo)
           i == IndexOf(providers, name)
           p0 == providers[i]
           p1 == IF p0.is_connected THEN p0 ELSE provider_connect(p0, co1)
           g == provider_generate(p1, outcome)
       IN  IF ~p0.is_connected /\ ~co1
           THEN /\ providers' = [providers EXCEPT ![i] = p1]
                /\ llm_call' = OnSkip(llm_call, name)
           ELSE IF ~g.raised
           THEN /\ providers' = [providers EXCEPT ![i] = g.prov]
                /\ llm_call' = OnSuccess(llm_call, name, g.val)
           ELSE /\ providers' = [providers EXCEPT ![i] = g.prov]
                /\ llm_call' = OnFailure(llm_call, name, g.val)
    /\ UNCHANGED reg_budget

\* One turn of the loop: the next candidate is reconnected if it is not
\* connected (co1), called (outcome), and after a failed call disconnected and
\* reconnected (co2).
llm_generate_try(co1, outcome, co2) ==
    /\ llm_call.pc = "loop"
    /\ llm_call.todo # <<>>
    /\ LET name == Head(llm_call.todo)
           i == IndexOf(providers, name)
           p0 == providers[i]
           p1 == IF p0.is_connected THEN p0 ELSE provider_connect(p0, co1)
           g == provider_generate(p1, outcome)
       IN  IF ~p0.is_connected /\ ~co1
           THEN /\ providers' = [providers EXCEPT ![i] = p1]
                /\ llm_call' = OnSkip(llm_call, name)
           ELSE IF ~g.raised
           THEN /\ providers' = [providers EXCEPT ![i] = g.prov]
                /\ llm_call' = OnSuccess(llm_call, name, g.val)
           ELSE /\ providers' = [providers EXCEPT
                                   ![i] = provider_connect(provider_disconnect(g.prov), co2)]
                /\ llm_call' = OnFailure(llm_call, name, g.val)
    /\ UNCHANGED reg_budget

llm_generate_exhausted ==
    /\ llm_call.pc = "loop"
    /\ llm_call.todo = <<>>
    /\ llm_call' = OnExhausted(llm_call)
    /\ UNCHANGED <<providers, reg_budget>>

(***************************************************************************)
(* mcp/mcp_server.py, mcp/generic_mcp_server.py: a server handle           *)
(***************************************************************************)
MCPNames == {"fs", "db"}
ToolName == "read_file"     \* the tool a dispatch asks for

\* capabilities after a failed "initialize"
BasicCaps == [k \in {"tools", "resources", "notifications"} |-> {}]
\* What a server answers to "initialize": the capability map of its result.
ToolCaps == [k \in {"tools"} |-> {ToolName}]

\* What happens when a server handle connects: the transport does not connect
\* ("refused"); it connects and "initialize" fails ("init_failed"); it connects
\* and the result carries a capability map listing the tool ("caps_tool") or
\* carries no "capabilities" key ("caps_none").
ConnectOutcomes == {"refused", "init_failed", "caps_tool", "caps_none"}

\* transport is the transport object: 0 is None, k the k-th one created.
NewServer(name) ==
    [name |-> name, is_connected |-> FALSE, transport |-> 0, made |-> 0,
     capabilities |-> EmptyDict, request_count |-> 0, error_count |-> 0]

\* A mutation of send_request: a request the transport fails is not counted as
\* a request.
server_send_request_uncounted(s, ok) ==
    IF ~s.is_connected \/ s.transport = 0
    THEN [srv |-> s, raised |-> TRUE, val |-> "not_connected"]
    ELSE IF ok
    THEN [srv |-> update_usage_stats(s, TRUE), raised |-> FALSE, val |-> "response"]
    ELSE [srv |-> [s EXCEPT !.error_count = @ + 1], raised |-> TRUE,
          val |-> "exception"]

\* GenericMCPServer.send_request: a handle that is not connected raises
\* ConnectionError before anything is counted; otherwise the request goes to
\* the transport (ok: it answers) and is counted, as an error if it raised.
server_send_request(s, ok) ==
    IF ~s.is_connected \/ s.transport = 0
    THEN [srv |-> s, raised |-> TRUE, val |-> "not_connected"]
    ELSE IF ok
    THEN [srv |-> update_usage_stats(s, TRUE), raised |-> FALSE, val |-> "response"]
    ELSE [srv |-> update_usage_stats(s, FALSE), raised |-> TRUE, val |-> "exception"]

\* get_capabilities: one "initialize" request through send_request; whatever
\* it raises is caught and the basic capability map is set.
get_capabilities(s, co) ==
    LET r == server_send_request(s, co # "init_failed")
    IN  IF r.raised
        THEN [r.srv EXCEPT !.capabilities = BasicCaps]
        ELSE [r.srv EXCEPT
                !.capabilities = IF co = "caps_tool" THEN ToolCaps ELSE EmptyDict]

\* A mutation of connect: a failed "initialize" fails the connect.
server_connect_strict(s, co) ==
    LET t == [s EXCEPT !.made = @ + 1, !.transport = s.made + 1]
    IN  IF co = "refused" THEN t
        ELSE IF co = "init_failed" THEN update_usage_stats(t, FALSE)
        ELSE get_capabilities([t EXCEPT !.is_connected = TRUE], co)

\* A mutation of connect: the transport object at hand is kept.
server_connect_reuse(s, co) ==
    IF co = "refused" THEN s
    ELSE get_capabilities([s EXCEPT !.is_connected = TRUE], co)

\* connect: a new transport is created first; the handle is marked connected
\* and its capabilities are read only if the transport connects.
server_connect(s, co) ==
    LET t == [s EXCEPT !.made = @ + 1, !.transport = s.made + 1]
    IN  IF co = "refused" THEN t
        ELSE get_capabilities([t EXCEPT !.is_connected = TRUE], co)

server_disconnect(s) == [s EXCEPT !.transport = 0, !.is_connected = FALSE]

\* call_tool of one server handle, through send_request.
server_call_tool(s, ok) ==
    LET r == server_send_request(s, ok)
    IN  [srv |-> r.srv, raised |-> r.raised,
         val |-> IF r.raised THEN r.val ELSE s.name]

has_capability(s, capability) == capability \in DOMAIN s.capabilities

(***************************************************************************)
(* mcp/mcp_manager.py: MCPManager                                          *)
(***************************************************************************)
RECURSIVE _find_servers_with_tool(_, _)
\* The servers are visited in map order.  get_capability_info is a plain
\* method returning the map entry, and the loop awaits its result: the first
\* server that has a "tools" entry makes the await raise TypeError, so the
\* membership test after it is never reached.
_find_servers_with_tool(q, acc) ==
    IF q = <<>> THEN [raised |-> FALSE, names |-> acc]
    ELSE IF has_capability(Head(q), "tools")
         THEN [raised |-> TRUE, names |-> acc]
         ELSE _find_servers_with_tool(Tail(q), acc)

\* A mutation of add_server: the handle is registered before it is connected.
add_server_register_first(name, valid, co) ==
    /\ mcp_call.pc # "loop"
    /\ reg_budget.registry = "mcp"
    /\ reg_budget.adds > 0
    /\ reg_budget' = [reg_budget EXCEPT !.adds = @ - 1]
    /\ servers' = IF valid
                  THEN PutEntry(servers, server_connect(NewServer(name), co))
                  ELSE servers
    /\ mgr_ret' = MgrRet("add_server", "mcp", name, valid, valid /\ co # "refused",
                         valid /\ co # "refused", <<>>)
    /\ UNCHANGED mcp_call

\* add_server: the handle is registered only if the configuration passes
\* validate_server_config (valid) and its connect succeeds; connect is not
\* attempted on an invalid configuration.
add_server(name, valid, co) ==
    /\ mcp_call.pc # "loop"
    /\ reg_budget.registry = "mcp"
    /\ reg_budget.adds > 0
    /\ reg_budget' = [reg_budget EXCEPT !.adds = @ - 1]
    /\ servers' = IF valid /\ co # "refused"
                  THEN PutEntry(servers, server_connect(NewServer(name), co))
                  ELSE servers
    /\ mgr_ret' = MgrRet("add_server", "mcp", name, valid, valid /\ co # "refused",
                         valid /\ co # "refused", <<>>)
    /\ UNCHANGED mcp_call

\* A mutation of call_tool: after the named server the other registered servers
\* are candidates too.
mcp_call_start_fallback(target) ==
    /\ mcp_call.pc # "loop"
    /\ reg_budget.registry = "mcp"
    /\ reg_budget.calls > 0
    /\ reg_budget' = [reg_budget EXCEPT !.calls = @ - 1]
    /\ mcp_call' =
         IF servers = <<>> THEN RaiseCall(target, "no_servers", servers)
         ELSE IF target # "none"
              THEN IF ~Registered(servers, target)
                   THEN RaiseCall(target, "not_found", servers)
                   ELSE StartCall(target,
                                  <<target>> \o SelectSeq(Names(servers),
                                                          LAMBDA n : n # target),
                                  servers)
              ELSE LET f == _find_servers_with_tool(servers, <<>>)
                   IN  IF f.raised THEN RaiseCall(target, "type_error", servers)
                       ELSE IF f.names = <<>>
                            THEN RaiseCall(target, "no_servers_with_tool", servers)
                            ELSE StartCall(target, f.names, servers)
    /\ UNCHANGED servers

\* call_tool up to the loop: the candidate list, or an early raise.
mcp_call_start(target) ==
    /\ mcp_call.pc # "loop"
    /\ reg_budget.registry = "mcp"
    /\ reg_budget.calls > 0
    /\ reg_budget' = [reg_budget EXCEPT !.calls = @ - 1]
    /\ mcp_call' =
         IF servers = <<>> THEN RaiseCall(target, "no_servers", servers)
         ELSE IF target # "none"
              THEN IF ~Registered(servers, target)
                   THEN RaiseCall(target, "not_found", servers)
                   ELSE StartCall(target, <<target>>, servers)
              ELSE LET f == _find_servers_with_tool(servers, <<>>)
                   IN  IF f.raised THEN RaiseCall(target, "type_error", servers)
                       ELSE IF f.names = <<>>
                            THEN RaiseCall(target, "no_servers_with_tool", servers)
                            ELSE StartCall(target, f.names, servers)
    /\ UNCHANGED servers

\* One turn of the loop: the next candidate is reconnected if it is not
\* connected (co1), called (ok), and after a failed call disconnected and
\* reconnected (co2).
mcp_call_try(co1, ok, co2) ==
    /\ mcp_call.pc = "loop"
    /\ mcp_call.todo # <<>>
    /\ LET name == Head(mcp_call.todo)
           i == IndexOf(servers, name)
           s0 == servers[i]
           s1 == IF s0.is_connected THEN s0 ELSE server_connect(s0, co1)
           g == server_call_tool(s1, ok)
       IN  IF ~s0.is_connected /\ co1 = "refused"
           THEN /\ servers' = [servers EXCEPT ![i] = s1]
                /\ mcp_call' = OnSkip(mcp_call, name)
           ELSE IF ~g.raised
           THEN /\ servers' = [servers EXCEPT ![i] = g.srv]
                /\ mcp_call' = OnSuccess(mcp_call, name, g.val)
           ELSE /\ servers' = [servers EXCEPT
                                 ![i] = server_connect(server_disconnect(g.srv), co2)]
                /\ mcp_call' = OnFailure(mcp_call, name, g.val)
    /\ UNCHANGED reg_budget

mcp_call_exhausted ==
    /\ mcp_call.pc = "loop"
    /\ mcp_call.todo = <<>>
    /\ mcp_call' = OnExhausted(mcp_call)
    /\ UNCHANGED <<servers, reg_budget>>

\* A run exercises one of the two registries; they share no state.
RegistryNext ==
    \/ \E n \in LLMNames : \E valid \in BOOLEAN : \E ok \in BOOLEAN :
          add_provider(n, valid, ok) /\ UNCHANGED <<nonRegVars, mcpVars, health_check_task>>
    \/ \E t \in LLMNames \cup {"none"} :
          llm_generate_start(t) /\ UNCHANGED <<nonRegVars, mcpVars, mgrVars>>
    \/ \E co1 \in BOOLEAN : \E o \in CallOutcomes : \E co2 \in BOOLEAN :
          llm_generate_try(co1, o, co2) /\ UNCHANGED <<nonRegVars, mcpVars, mgrVars>>
    \/ llm_generate_exhausted /\ UNCHANGED <<nonRegVars, mcpVars, mgrVars>>
    \/ \E n \in MCPNames : \E valid \in BOOLEAN : \E co \in ConnectOutcomes :
          add_server(n, valid, co) /\ UNCHANGED <<nonRegVars, llmVars, health_check_task>>
    \/ \E t \in MCPNames \cup {"none"} :
          mcp_call_start(t) /\ UNCHANGED <<nonRegVars, llmVars, mgrVars>>
    \/ \E co1 \in ConnectOutcomes : \E ok \in BOOLEAN : \E co2 \in ConnectOutcomes :
          mcp_call_try(co1, ok, co2) /\ UNCHANGED <<nonRegVars, llmVars, mgrVars>>
    \/ mcp_call_exhausted /\ UNCHANGED <<nonRegVars, llmVars, mgrVars>>

NoTasks == [m \in {"llm", "mcp"} |-> "none"]
NoMgrRet == MgrRet("init", "none", "none", FALSE, FALSE, FALSE, <<>>)

\* no walk over the servers dict is in progress
NoIteration ==
    [op |-> "none", state |-> "none", used |-> 0, pos |-> 0, status |-> EmptyDict,
     stayed |-> {}]

RegIdle ==
    /\ iteration = NoIteration
    /\ providers = <<>>
    /\ llm_call = IdleCall
    /\ servers = <<>>
    /\ mcp_call = IdleCall
    /\ reg_budget = [registry |-> "none", adds |-> 0, calls |-> 0]
    /\ health_check_task = NoTasks
    /\ mgr_ret = NoMgrRet

NoPriority == [default |-> "none", fallbacks |-> <<>>, snap |-> <<>>, list |-> <<>>]
\* str(n), the form of a request id on the wire; <<>> stands for no id
str(n) == <<"str", n>>
NoReply == [jsonrpc |-> "absent", id |-> <<>>, result |-> FALSE, error |-> FALSE]
\* A transport object as constructed; calls counts its send_request calls.
NoTransport ==
    [is_connected |-> FALSE, session |-> FALSE, request_id |-> 0, sent |-> <<>>,
     reply |-> NoReply, ret |-> [raised |-> FALSE, val |-> "none"], calls |-> 0]
TransportIds == {"stdio", "http"}    \* the transport objects of a run
NoTransports == [tid \in TransportIds |-> NoTransport]

\* no blocking call in progress
NoLoop == [reading |-> "none"]

\* no MessageProcessor call made
NoRouter == [pc |-> "idle"]

\* no session_closed event published
NoEvents == [sid \in {} |-> 0]

\* the session manager has been started and no engine call has been made
EngIdle ==
    /\ event_loop = NoLoop
    /\ router = NoRouter
    /\ uuid_count = 0
    /\ cleanup_task = "running"
    /\ session_closed = NoEvents

LibIdle ==
    /\ priority = NoPriority
    /\ transports = NoTransports
    /\ EngIdle

CtxIdle == requests = [r \in {} |-> 0]

StoreIdle ==
    /\ now = 0
    /\ sessions = <<>>
    /\ budget = [creates |-> 0, updates |-> 0]
    /\ ret = Ret("init", 0, "none")

RegistryInit ==
    /\ iteration = NoIteration
    /\ StoreIdle
    /\ CtxIdle
    /\ providers = <<>>
    /\ llm_call = IdleCall
    /\ servers = <<>>
    /\ mcp_call = IdleCall
    /\ reg_budget \in {[registry |-> r, adds |-> MaxAdds, calls |-> MaxCalls] :
                          r \in {"llm", "mcp"}}
    /\ health_check_task = NoTasks
    /\ mgr_ret = NoMgrRet
    /\ LibIdle

SpecRegistry == RegistryInit /\ [][RegistryNext]_vars

(***************************************************************************)
(* The priority-list scenario: a manager of any default/fallback           *)
(* configuration, providers registered in any order, the list computed.    *)
(***************************************************************************)
RECURSIVE SeqsUpTo(_, _)
\* the sequences over S of length at most n
SeqsUpTo(S, n) ==
    IF n = 0 THEN {<<>>}
    ELSE LET shorter == SeqsUpTo(S, n - 1)
         IN  shorter \cup {Append(q, x) : q \in shorter, x \in S}

PriorityInit ==
    /\ iteration = NoIteration
    /\ StoreIdle
    /\ CtxIdle
    /\ providers = <<>>
    /\ llm_call = IdleCall
    /\ servers = <<>>
    /\ mcp_call = IdleCall
    /\ reg_budget = [registry |-> "llm", adds |-> MaxAdds, calls |-> 0]
    /\ health_check_task = NoTasks
    /\ mgr_ret = NoMgrRet
    /\ priority \in {[NoPriority EXCEPT !.default = d, !.fallbacks = f] :
                        d \in LLMNames, f \in SeqsUpTo(LLMNames, MaxFallbacks)}
    /\ transports = NoTransports
    /\ EngIdle

PriorityNext ==
    \/ \E n \in LLMNames :
          /\ add_provider(n, TRUE, TRUE)
          /\ UNCHANGED <<nonRegVars, mcpVars, health_check_task>>
    \/ priority_list_call
          /\ UNCHANGED <<now, sessions, budget, ret, requests, transports, mcpVars, event_loop,
                         router, uuid_count, lifeVars, iteration,
                         health_check_task>>

SpecPriority == PriorityInit /\ [][PriorityNext]_vars

(***************************************************************************)
(* llm/llm_manager.py, mcp/mcp_manager.py: start, health_check, stop       *)
(***************************************************************************)
MaxMgrAdds == 2              \* entries added in a run of the manager scenario
MaxPasses == 2               \* health-check passes in a run

\* one call a manager operation made on an entry
Op(name, call) == <<name, call>>

\* health_status[name] = value
DictPut(d, key, value) ==
    [k \in DOMAIN d \cup {key} |-> IF k = key THEN value ELSE d[k]]

\* OpenAIProvider.validate_connection: the list-models probe, which answers
\* with an empty list when there is no client handle (ok: the upstream lists
\* at least one model).
provider_validate_connection(p, ok) == p.session # 0 /\ ok

\* GenericMCPServer.validate_connection: False without a connection; else one
\* "tools/list" request through send_request, which counts it.
server_validate_connection(s, ok) ==
    IF ~s.is_connected \/ s.transport = 0
    THEN [srv |-> s, val |-> FALSE]
    ELSE LET r == server_send_request(s, ok)
         IN  [srv |-> r.srv, val |-> ~r.raised]

\* What the world does to one entry during a pass: how its validation probe
\* ends, and how a reconnect would end.
NameSet(q) == {q[i].name : i \in 1..Len(q)}
ProviderHealthInputs(q) == [NameSet(q) -> [healthy : BOOLEAN, ok : BOOLEAN]]
ServerHealthInputs(q) == [NameSet(q) -> [healthy : BOOLEAN, co : ConnectOutcomes]]

\* A mutation of the loop body: an entry that is not healthy is reconnected
\* whether or not it is marked connected.
HealthStepAnyUnhealthy(name, entry, healthy, disconnected, reconnected) ==
    IF ~healthy
    THEN [entry |-> reconnected, val |-> healthy,
          ops |-> <<Op(name, "validate_connection"), Op(name, "disconnect"),
                    Op(name, "connect")>>]
    ELSE [entry |-> entry, val |-> healthy,
          ops |-> <<Op(name, "validate_connection")>>]

\* A mutation of the loop body: the entry is reconnected first, disconnected
\* after.
HealthStepReconnectFirst(name, entry, healthy, disconnected, reconnected) ==
    IF ~healthy /\ entry.is_connected
    THEN [entry |-> disconnected, val |-> healthy,
          ops |-> <<Op(name, "validate_connection"), Op(name, "connect"),
                    Op(name, "disconnect")>>]
    ELSE [entry |-> entry, val |-> healthy,
          ops |-> <<Op(name, "validate_connection")>>]

\* The body of the health_check loop for one entry, validated already:
\* an entry that is not healthy and is marked connected is disconnected, then
\* connected again.
HealthStep(name, entry, healthy, disconnected, reconnected) ==
    IF ~healthy /\ entry.is_connected
    THEN [entry |-> reconnected, val |-> healthy,
          ops |-> <<Op(name, "validate_connection"), Op(name, "disconnect"),
                    Op(name, "connect")>>]
    ELSE [entry |-> entry, val |-> healthy,
          ops |-> <<Op(name, "validate_connection")>>]

provider_health_step(p, inp) ==
    HealthStep(p.name, p, provider_validate_connection(p, inp.healthy),
               provider_disconnect(p),
               provider_connect(provider_disconnect(p), inp.ok))

server_health_step(s, inp) ==
    LET v == server_validate_connection(s, inp.healthy)
    IN  HealthStep(s.name, v.srv, v.val,
                   server_disconnect(v.srv),
                   server_connect(server_disconnect(v.srv), inp.co))

RECURSIVE HealthPass(_, _, _)
\* health_check: the map's entries in order from the i-th on; st holds the
\* map, health_status and the calls made so far, steps the outcome per entry.
HealthPass(st, i, steps) ==
    IF i > Len(st.map) THEN st
    ELSE HealthPass([map |-> [st.map EXCEPT ![i] = steps[i].entry],
                     status |-> DictPut(st.status, st.map[i].name, steps[i].val),
                     ops |-> st.ops \o steps[i].ops],
                    i + 1, steps)

StartPass(q) == [map |-> q, status |-> EmptyDict, ops |-> <<>>]

\* start, on a configuration that lists no entries: the health-check task is
\* created (health_check_interval is 300 by default).
llm_start ==
    /\ reg_budget.registry = "llm"
    /\ llm_call.pc # "loop"
    /\ health_check_task["llm"] # "running"
    /\ health_check_task' = [health_check_task EXCEPT !["llm"] = "running"]
    /\ mgr_ret' = MgrRet("start", "llm", "none", FALSE, FALSE, FALSE, <<>>)
    /\ UNCHANGED <<providers, llm_call, reg_budget>>

mcp_start ==
    /\ reg_budget.registry = "mcp"
    /\ mcp_call.pc # "loop"
    /\ health_check_task["mcp"] # "running"
    /\ health_check_task' = [health_check_task EXCEPT !["mcp"] = "running"]
    /\ mgr_ret' = MgrRet("start", "mcp", "none", FALSE, FALSE, FALSE, <<>>)
    /\ UNCHANGED <<servers, mcp_call, reg_budget>>

\* One turn of _health_check_loop: a pass of health_check over the providers.
llm_health_check(inp) ==
    /\ reg_budget.registry = "llm"
    /\ llm_call.pc # "loop"
    /\ health_check_task["llm"] = "running"
    /\ reg_budget.calls > 0
    /\ reg_budget' = [reg_budget EXCEPT !.calls = @ - 1]
    /\ LET steps == [i \in 1..Len(providers) |->
                        provider_health_step(providers[i], inp[providers[i].name])]
           end == HealthPass(StartPass(providers), 1, steps)
       IN  /\ providers' = end.map
           /\ mgr_ret' = MgrRet("health_check", "llm", "none", FALSE, FALSE,
                                end.status, end.ops)
    /\ UNCHANGED <<llm_call, health_check_task>>

\* One turn of _health_check_loop: a pass of health_check over the servers.
mcp_health_check(inp) ==
    /\ reg_budget.registry = "mcp"
    /\ mcp_call.pc # "loop"
    /\ health_check_task["mcp"] = "running"
    /\ reg_budget.calls > 0
    /\ reg_budget' = [reg_budget EXCEPT !.calls = @ - 1]
    /\ LET steps == [i \in 1..Len(servers) |->
                        server_health_step(servers[i], inp[servers[i].name])]
           end == HealthPass(StartPass(servers), 1, steps)
       IN  /\ servers' = end.map
           /\ mgr_ret' = MgrRet("health_check", "mcp", "none", FALSE, FALSE,
                                end.status, end.ops)
    /\ UNCHANGED <<mcp_call, health_check_task>>

\* send_request called on a handle by its holder.
mcp_send_request(n, ok) ==
    /\ reg_budget.registry = "mcp"
    /\ mcp_call.pc # "loop"
    /\ Registered(servers, n)
    /\ reg_budget.calls > 0
    /\ reg_budget' = [reg_budget EXCEPT !.calls = @ - 1]
    /\ LET i == IndexOf(servers, n)
           r == server_send_request(servers[i], ok)
       IN  /\ servers' = [servers EXCEPT ![i] = r.srv]
           /\ mgr_ret' = MgrRet("send_request", "mcp", n, FALSE,
                                servers[i].is_connected, r.val, <<>>)
    /\ UNCHANGED <<mcp_call, health_check_task>>

\* the calls stop makes on the entries, in map order
DisconnectOps(q) == [i \in 1..Len(q) |-> Op(q[i].name, "disconnect")]

\* LLMManager.stop: the task, if there is one, is cancelled and the attribute
\* set to None; every provider is removed through remove_provider, which
\* disconnects it and deletes its key.
llm_stop ==
    /\ reg_budget.registry = "llm"
    /\ llm_call.pc # "loop"
    /\ health_check_task' = [health_check_task EXCEPT !["llm"] = "none"]
    /\ providers' = <<>>
    /\ mgr_ret' = MgrRet("stop", "llm", "none", FALSE, FALSE, FALSE,
                         DisconnectOps(providers))
    /\ UNCHANGED <<llm_call, reg_budget>>

\* MCPManager.stop: the task, if there is one, is cancelled; the attribute
\* keeps referring to the cancelled task.  Every server is disconnected and
\* the map is cleared.
mcp_stop ==
    /\ reg_budget.registry = "mcp"
    /\ mcp_call.pc # "loop"
    /\ health_check_task' =
          [health_check_task EXCEPT
              !["mcp"] = IF @ = "none" THEN "none" ELSE "cancelled"]
    /\ servers' = <<>>
    /\ mgr_ret' = MgrRet("stop", "mcp", "none", FALSE, FALSE, FALSE,
                         DisconnectOps(servers))
    /\ UNCHANGED <<mcp_call, reg_budget>>

ManagersInit ==
    /\ iteration = NoIteration
    /\ StoreIdle
    /\ CtxIdle
    /\ LibIdle
    /\ providers = <<>>
    /\ llm_call = IdleCall
    /\ servers = <<>>
    /\ mcp_call = IdleCall
    /\ reg_budget \in {[registry |-> r, adds |-> MaxMgrAdds, calls |-> MaxPasses] :
                          r \in {"llm", "mcp"}}
    /\ health_check_task = NoTasks
    /\ mgr_ret = NoMgrRet

ManagersNext ==
    \/ \E n \in LLMNames : \E valid \in BOOLEAN : \E ok \in BOOLEAN :
          add_provider(n, valid, ok) /\ UNCHANGED <<nonRegVars, mcpVars, health_check_task>>
    \/ llm_start /\ UNCHANGED <<nonRegVars, mcpVars>>
    \/ \E inp \in ProviderHealthInputs(providers) :
          llm_health_check(inp) /\ UNCHANGED <<nonRegVars, mcpVars>>
    \/ llm_stop /\ UNCHANGED <<nonRegVars, mcpVars>>
    \/ \E n \in MCPNames : \E valid \in BOOLEAN : \E co \in ConnectOutcomes :
          add_server(n, valid, co) /\ UNCHANGED <<nonRegVars, llmVars, health_check_task>>
    \/ mcp_start /\ UNCHANGED <<nonRegVars, llmVars>>
    \/ \E inp \in ServerHealthInputs(servers) :
          mcp_health_check(inp) /\ UNCHANGED <<nonRegVars, llmVars>>
    \/ mcp_stop /\ UNCHANGED <<nonRegVars, llmVars>>

SpecManagers == ManagersInit /\ [][ManagersNext]_vars

(***************************************************************************)
(* The handle scenario: one GenericMCPServer handle, registered but not    *)
(* yet connected, driven directly by the holder of the handle.             *)
(***************************************************************************)
MaxHandleOps == 5            \* operations on the handle in a run

HandleOp(op, val) ==
    /\ reg_budget.registry = "mcp"
    /\ reg_budget.calls > 0
    /\ reg_budget' = [reg_budget EXCEPT !.calls = @ - 1]
    /\ mgr_ret' = MgrRet(op, "mcp", servers[1].name, FALSE, servers[1].is_connected,
                         val, <<>>)
    /\ UNCHANGED <<mcp_call, health_check_task>>

handle_connect(co) ==
    /\ servers' = <<server_connect(servers[1], co)>>
    /\ HandleOp("connect", co # "refused")

handle_disconnect ==
    /\ servers' = <<server_disconnect(servers[1])>>
    /\ HandleOp("disconnect", TRUE)

handle_validate_connection(ok) ==
    /\ servers' = <<server_validate_connection(servers[1], ok).srv>>
    /\ HandleOp("validate_connection", server_validate_connection(servers[1], ok).val)

HandleInit ==
    /\ iteration = NoIteration
    /\ StoreIdle
    /\ CtxIdle
    /\ LibIdle
    /\ providers = <<>>
    /\ llm_call = IdleCall
    /\ servers = <<NewServer("fs")>>
    /\ mcp_call = IdleCall
    /\ reg_budget = [registry |-> "mcp", adds |-> 0, calls |-> MaxHandleOps]
    /\ health_check_task = NoTasks
    /\ mgr_ret = NoMgrRet

HandleNext ==
    \/ \E co \in ConnectOutcomes : handle_connect(co) /\ UNCHANGED <<nonRegVars, llmVars>>
    \/ handle_disconnect /\ UNCHANGED <<nonRegVars, llmVars>>
    \/ \E ok \in BOOLEAN :
          handle_validate_connection(ok) /\ UNCHANGED <<nonRegVars, llmVars>>
    \/ \E ok \in BOOLEAN :
          mcp_send_request("fs", ok) /\ UNCHANGED <<nonRegVars, llmVars>>

SpecHandle == HandleInit /\ [][HandleNext]_vars

(***************************************************************************)
(* mcp/transports: base_transport.py, http_transport.py, stdio_transport.py*)
(***************************************************************************)
MaxRequests == 2             \* requests sent through one transport in a run

\* What comes back for one request: a JSON object with or without each of
\* the keys "jsonrpc", "id", "result" and "error", or no usable answer at all
\* (a non-200 status, an empty line).
Replies ==
    [jsonrpc : {"2.0", "1.0", "absent"},
     id : {<<>>} \cup {str(k) : k \in 1..MaxRequests},
     result : BOOLEAN,
     error : BOOLEAN]

\* One exchange: a reply comes back, or none does.
Exchanges ==
    {[answered |-> TRUE, response |-> r] : r \in Replies}
        \cup {[answered |-> FALSE, response |-> NoReply]}

\* format_message: the request carries the id it is given.
format_message(request_id) == [jsonrpc |-> "2.0", id |-> request_id]

validate_response(response) ==
    /\ response.jsonrpc = "2.0"
    /\ response.id # <<>>
    /\ ~response.error
    /\ response.result

\* send_message: the reply is returned if validate_response accepts it; else
\* the call raises, with the reply's error text if it has an "error" key and
\* with "Invalid response from MCP server" if not.
send_message(t, message, answered, response) ==
    IF ~t.is_connected \/ ~t.session
    THEN [raised |-> TRUE, val |-> "not_connected"]
    ELSE IF ~answered
    THEN [raised |-> TRUE, val |-> "io_error"]
    ELSE IF validate_response(response)
    THEN [raised |-> FALSE, val |-> "reply"]
    ELSE IF response.error
    THEN [raised |-> TRUE, val |-> "rpc_error"]
    ELSE [raised |-> TRUE, val |-> "invalid_response"]

\* connect: the client session (the subprocess) is created, then the
\* connection is probed.
transport_connect(tid, ok) ==
    /\ ~transports[tid].is_connected
    /\ transports' = [transports EXCEPT ![tid].session = TRUE,
                                       ![tid].is_connected = ok]

transport_disconnect(tid) ==
    /\ transports[tid].session
    /\ transports' = [transports EXCEPT ![tid].session = FALSE,
                                       ![tid].is_connected = FALSE]

\* A mutation of send_request: the counter is advanced only once the message
\* is known to go out.
SendRequestCountSent(t, answered, response) ==
    LET request_id == IF t.is_connected /\ t.session THEN t.request_id + 1
                      ELSE t.request_id
        message == format_message(str(request_id))
    IN  [t EXCEPT
           !.request_id = request_id,
           !.sent = message.id,
           !.reply = IF answered /\ t.is_connected /\ t.session
                     THEN response ELSE NoReply,
           !.ret = send_message(t, message, answered, response),
           !.calls = @ + 1]

\* send_request on one transport object: the counter is advanced, its decimal
\* form is the request id.
SendRequest(t, answered, response) ==
    LET request_id == t.request_id + 1
        message == format_message(str(request_id))
    IN  [t EXCEPT
           !.request_id = request_id,
           !.sent = message.id,
           !.reply = IF answered /\ t.is_connected /\ t.session
                     THEN response ELSE NoReply,
           !.ret = send_message(t, message, answered, response),
           !.calls = @ + 1]

send_request(tid, answered, response) ==
    /\ transports[tid].calls < MaxRequests
    /\ transports' = [transports EXCEPT
                        ![tid] = SendRequest(transports[tid], answered, response)]

TransportInit ==
    /\ StoreIdle
    /\ CtxIdle
    /\ RegIdle
    /\ priority = NoPriority
    /\ transports = NoTransports
    /\ EngIdle

TransportNext ==
    \/ \E tid \in TransportIds : \E ok \in BOOLEAN :
          transport_connect(tid, ok)
          /\ UNCHANGED <<storeVars, lifeVars, iteration,
                         regVars, requests, priority, event_loop, router,
                         uuid_count>>
    \/ \E tid \in TransportIds :
          transport_disconnect(tid)
          /\ UNCHANGED <<storeVars, lifeVars, iteration,
                         regVars, requests, priority, event_loop, router,
                         uuid_count>>
    \/ \E tid \in TransportIds : \E x \in Exchanges :
          send_request(tid, x.answered, x.response)
          /\ UNCHANGED <<storeVars, lifeVars, iteration,
                         regVars, requests, priority, event_loop, router,
                         uuid_count>>

SpecTransport == TransportInit /\ [][TransportNext]_vars

(***************************************************************************)
(* core/message_processor.py: MessageProcessor, the strategy router        *)
(***************************************************************************)
MaxWords == 2                \* words of a drawn request text

\* A request text is a sequence of words; the words are alphabetic, so a
\* regex word boundary falls exactly between two words.
Text1 == <<"list", "files", "in", "the", "current", "directory">>
Text2 == <<"explain", "how", "TCP", "works">>
Text3 == <<"analyze", "this", "log", "file", "and", "explain", "the", "errors">>

Vocabulary ==
    {"list", "files", "file", "directory", "directories", "explain", "how", "show",
     "me", "data", "examine", "analyze", "read", "search", "for", "hello", "TCP"}

\* str.lower, word by word
LowerWord(w) == IF w = "TCP" THEN "tcp" ELSE w
lower(text) == [i \in 1..Len(text) |-> LowerWord(text[i])]

\* the configured keywords that occur in a word as a substring
KeywordsIn(w) ==
    CASE w = "list" -> {"list"}
      [] w \in {"files", "file"} -> {"file"}
      [] w = "directory" -> {"directory"}
      [] w = "explain" -> {"explain"}
      [] w \in {"how", "show"} -> {"how"}
      [] w = "analyze" -> {"analyze"}
      [] w = "read" -> {"read"}
      [] w = "search" -> {"search"}
      [] OTHER -> {}

mcp_keywords ==
    {"file", "directory", "list", "read", "write", "delete", "create", "search",
     "find", "execute", "run", "command", "system", "process", "database", "query",
     "sql", "api", "http", "request", "fetch"}

llm_keywords ==
    {"explain", "help", "how", "what", "why", "when", "where", "who", "analyze",
     "summarize", "translate", "generate", "create", "write", "answer", "question",
     "discuss", "describe", "compare", "contrast"}

\* `needle in message` for a needle without blanks
Contains(message, needles) ==
    \E i \in 1..Len(message) : KeywordsIn(message[i]) \cap needles # {}

\* re.search of \b(A)\b, of \b(A)\s+(B)\b and of \b(A)\s+(B)\s+(C)\b
HasWord(message, A) == \E i \in 1..Len(message) : message[i] \in A
HasPair(message, A, B) ==
    \E i \in 1..(Len(message) - 1) : message[i] \in A /\ message[i + 1] \in B
HasTriple(message, A, B, C) ==
    \E i \in 1..(Len(message) - 2) :
        message[i] \in A /\ message[i + 1] \in B /\ message[i + 2] \in C
\* re.search of a phrase of several words followed by a word of B
HasPhraseThen(message, phrase, B) ==
    \E i \in 1..(Len(message) - Len(phrase)) :
        /\ SubSeq(message, i, i + Len(phrase) - 1) = phrase
        /\ message[i + Len(phrase)] \in B

_is_mcp_request(message) ==
    \/ HasPair(message, {"list", "show", "get"},
               {"file", "files", "directorie", "directories", "processe", "processes"})
    \/ HasPair(message, {"read", "open", "view"}, {"file", "document"})
    \/ HasPair(message, {"create", "make", "new"}, {"file", "directory", "folder"})
    \/ HasPair(message, {"delete", "remove", "rm"}, {"file", "directory"})
    \/ HasPair(message, {"run", "execute", "start"}, {"command", "program", "script"})
    \/ HasPair(message, {"search", "find"}, {"in", "for"})
    \/ HasPair(message, {"query", "select"}, {"database", "db"})

_is_llm_request(message) ==
    \/ HasWord(message, {"explain", "describe"})
    \/ HasTriple(message, {"tell"}, {"me"}, {"about"})
    \/ HasWord(message, {"how", "what", "why", "when", "where", "who"})
    \/ HasWord(message, {"analyze", "summarize", "review"})
    \/ HasWord(message, {"translate", "convert"})
    \/ HasPair(message, {"generate", "create", "write"},
               {"text", "story", "poem", "essay"})
    \/ HasWord(message, {"help", "assist", "guide"})

_is_hybrid_request(message) ==
    \/ HasPair(message, {"analyze", "examine", "review"}, {"file", "document", "data"})
    \/ HasTriple(message, {"explain", "describe"}, {"what", "how"},
                 {"file", "process", "system"})
    \/ HasPhraseThen(message, <<"help", "me", "understand">>, {"file", "data", "output"})
    \/ HasPhraseThen(message, <<"show", "me">>, {"file", "data", "output"})

_contains_mcp_keywords(message) == Contains(message, mcp_keywords)
_contains_llm_keywords(message) == Contains(message, llm_keywords)

_determine_processing_strategy(text) ==
    LET message == lower(text)
    IN  IF _is_mcp_request(message) THEN "mcp_only"
        ELSE IF _is_llm_request(message) THEN "llm_only"
        ELSE IF _is_hybrid_request(message) THEN "hybrid"
        ELSE IF _contains_mcp_keywords(message) THEN "mcp_only"
        ELSE IF _contains_llm_keywords(message) THEN "llm_only"
        ELSE "llm_only"

\* _extract_mcp_request: the tool name (the arguments are not modelled)
_extract_mcp_request(text) ==
    LET message_lower == lower(text)
    IN  IF Contains(message_lower, {"list"})
           /\ (Contains(message_lower, {"file"}) \/ Contains(message_lower, {"directory"}))
        THEN "list_files"
        ELSE IF Contains(message_lower, {"read"}) /\ Contains(message_lower, {"file"})
        THEN "read_file"
        ELSE IF Contains(message_lower, {"search"}) THEN "search_files"
        ELSE "list_files"

MaxHistory == 2              \* messages of a drawn history
MaxContent == 2              \* characters of a drawn history message

\* models.py Message as the router sees it: a role and a content; a content is
\* a sequence of pieces (characters for a history message, words for a text)
Turn(role, content) == [role |-> role, content |-> content]

\* models.py Response; metadata is a dict
Response(content, status, metadata) ==
    [content |-> content, status |-> status, metadata |-> metadata,
     correlation_id |-> NoCorrelationId]

Timestamp == "utcnow"

\* one call made on a manager
ToolCall(tool_name) == [to |-> "mcp", tool_name |-> tool_name, messages |-> <<>>]
ModelCall(messages) == [to |-> "llm", tool_name |-> "", messages |-> messages]

\* the history messages taken from the newest backwards while the total
\* length stays within max_context_length, each inserted at index 0 of messages
RECURSIVE InsertHistory(_, _, _, _, _)
InsertHistory(messages, history, k, total_length, max) ==
    IF k = 0 THEN messages
    ELSE IF total_length + Len(history[k].content) > max THEN messages
    ELSE InsertHistory(<<history[k]>> \o messages, history, k - 1,
                       total_length + Len(history[k].content), max)

_prepare_messages_for_llm(context, max) ==
    LET system ==
            IF "system_prompt" \in DOMAIN context.metadata
            THEN <<Turn("system", context.metadata["system_prompt"])>>
            ELSE <<>>
        with_history ==
            InsertHistory(system, context.message_history,
                          Len(context.message_history), 0, max)
    IN  with_history \o <<Turn("user", context.message)>>

\* A mutation of _process_with_mcp: the soft reply is returned whatever the
\* fallback option says.
_process_with_mcp_soft(context, p, tool_ok) ==
    IF ~p.mcp_manager
    THEN [calls |-> <<>>,
          response |-> Response(<<"MCP functionality is not available">>, "error",
                                ("error" :> "MCP manager not available"))]
    ELSE LET tool_name == _extract_mcp_request(context.message)
         IN  [calls |-> <<ToolCall(tool_name)>>,
              response |->
                 IF tool_ok
                 THEN Response(<<"result of", tool_name>>, "success",
                               ("processing_strategy" :> "mcp_only")
                                  @@ ("tool_used" :> tool_name)
                                  @@ ("timestamp" :> Timestamp))
                 ELSE IF TRUE
                 THEN Response(<<"I tried to process your request but encountered",
                                 "call_tool raised">>, "partial",
                               ("error" :> "call_tool raised") @@ ("fallback" :> "True"))
                 ELSE Response(<<"I couldn't process your request", "call_tool raised">>,
                               "error", ("error" :> "call_tool raised"))]

\* _process_with_mcp: the calls made and the Response returned
_process_with_mcp(context, p, tool_ok) ==
    IF ~p.mcp_manager
    THEN [calls |-> <<>>,
          response |-> Response(<<"MCP functionality is not available">>, "error",
                                ("error" :> "MCP manager not available"))]
    ELSE LET tool_name == _extract_mcp_request(context.message)
         IN  [calls |-> <<ToolCall(tool_name)>>,
              response |->
                 IF tool_ok
                 THEN Response(<<"result of", tool_name>>, "success",
                               ("processing_strategy" :> "mcp_only")
                                  @@ ("tool_used" :> tool_name)
                                  @@ ("timestamp" :> Timestamp))
                 ELSE IF p.enable_mcp_fallback
                 THEN Response(<<"I tried to process your request but encountered",
                                 "call_tool raised">>, "partial",
                               ("error" :> "call_tool raised") @@ ("fallback" :> "True"))
                 ELSE Response(<<"I couldn't process your request", "call_tool raised">>,
                               "error", ("error" :> "call_tool raised"))]

\* _process_with_llm: the calls made and the Response returned
_process_with_llm(context, p, llm_ok) ==
    IF ~p.llm_manager
    THEN [calls |-> <<>>,
          response |-> Response(<<"LLM functionality is not available">>, "error",
                                ("error" :> "LLM manager not available"))]
    ELSE [calls |-> <<ModelCall(_prepare_messages_for_llm(context, p.max_context_length))>>,
          response |->
             IF llm_ok
             THEN Response(<<"generated">>, "success",
                           ("processing_strategy" :> "llm_only")
                              @@ ("timestamp" :> Timestamp))
             ELSE Response(<<"I encountered an error", "generate_response raised">>,
                           "error", ("error" :> "generate_response raised"))]

\* the message of the enhanced Context of the hybrid path
EnhancedMessage(content, message) ==
    <<"Based on this information:">> \o content
        \o <<"Please analyze and explain:">> \o message

\* _process_hybrid: the calls made and the Response returned
_process_hybrid(context, p, tool_ok, llm_ok) ==
    LET mcp == _process_with_mcp(context, p, tool_ok)
        mcp_response == mcp.response
        enhanced_context ==
            [context EXCEPT !.message = EnhancedMessage(mcp_response.content, context.message)]
        plain == _process_with_llm(context, p, llm_ok)
        llm == _process_with_llm(enhanced_context, p, llm_ok)
    IN  IF mcp_response.status = "error"
        THEN [calls |-> mcp.calls \o plain.calls, response |-> plain.response]
        ELSE [calls |-> mcp.calls \o llm.calls,
              response |->
                 Response(llm.response.content, "success",
                          ("processing_strategy" :> "hybrid")
                             @@ ("mcp_tool_used" :>
                                    DictGet(mcp_response.metadata, "tool_used", "None"))
                             @@ ("timestamp" :> Timestamp))]

\* MessageProcessor.process_message
RouterResult(p, tool_ok, llm_ok) ==
    LET strategy == _determine_processing_strategy(p.context.message)
    IN  IF strategy = "mcp_only" THEN _process_with_mcp(p.context, p, tool_ok)
        ELSE IF strategy = "llm_only" THEN _process_with_llm(p.context, p, llm_ok)
        ELSE IF strategy = "hybrid" THEN _process_hybrid(p.context, p, tool_ok, llm_ok)
        ELSE _process_with_llm(p.context, p, llm_ok)

process_message(tool_ok, llm_ok) ==
    /\ router.pc = "ready"
    /\ LET result == RouterResult(router, tool_ok, llm_ok)
       IN  router' = [router EXCEPT
                         !.pc = "done",
                         !.strategy = _determine_processing_strategy(router.context.message),
                         !.tool_ok = tool_ok,
                         !.llm_ok = llm_ok,
                         !.calls = result.calls,
                         !.response = result.response]
    /\ UNCHANGED <<storeVars, lifeVars, iteration,
                   regVars, requests, priority, transports, event_loop,
                   uuid_count>>

\* the texts, histories and Contexts a router run is given
RECURSIVE SeqsOver(_, _)
SeqsOver(S, n) ==
    IF n = 0 THEN {<<>>}
    ELSE LET shorter == SeqsOver(S, n - 1)
         IN  shorter \cup {Append(q, x) : q \in shorter, x \in S}

Texts == {Text1, Text2, Text3} \cup (SeqsOver(Vocabulary, MaxWords) \ {<<>>})

Contents == SeqsOver({"a", "b"}, MaxContent) \ {<<>>}
Histories == SeqsOver({Turn("user", c) : c \in Contents}, MaxHistory)
Metadatas == {EmptyDict, ("system_prompt" :> <<"S">>)}

ReadyRouter(context, fallback, max, mcp_manager, llm_manager) ==
    [pc |-> "ready", context |-> context, enable_mcp_fallback |-> fallback,
     max_context_length |-> max, mcp_manager |-> mcp_manager,
     llm_manager |-> llm_manager, strategy |-> "none", tool_ok |-> FALSE,
     llm_ok |-> FALSE, calls |-> <<>>,
     response |-> Response(<<>>, "none", EmptyDict)]

RouterContext(message, message_history, metadata) ==
    [message |-> message, message_history |-> message_history, metadata |-> metadata]

\* the calls that exercise the classification and the three paths
RoutingInputs ==
    {ReadyRouter(RouterContext(message, <<>>, EmptyDict), fallback, 4000,
                 mcp_manager, llm_manager) :
        message \in Texts, fallback \in BOOLEAN, mcp_manager \in BOOLEAN,
        llm_manager \in BOOLEAN}

\* the calls that exercise the assembly of the turns
AssemblyInputs ==
    {ReadyRouter(RouterContext(<<"hello">>, message_history, metadata), TRUE, max,
                 TRUE, TRUE) :
        message_history \in Histories, metadata \in Metadatas,
        max \in 0..(MaxHistory * MaxContent)}

RouterInit ==
    /\ StoreIdle
    /\ RegIdle
    /\ CtxIdle
    /\ priority = NoPriority
    /\ transports = NoTransports
    /\ event_loop = NoLoop
    /\ uuid_count = 0
    /\ cleanup_task = "running"
    /\ session_closed = NoEvents
    /\ router \in RoutingInputs \cup AssemblyInputs

RouterNext == \E tool_ok \in BOOLEAN, llm_ok \in BOOLEAN : process_message(tool_ok, llm_ok)

SpecRouter == RouterInit /\ [][RouterNext]_vars

(***************************************************************************)
(* core/context_manager.py: ContextManager                                 *)
(***************************************************************************)
Requests == {1, 2}
MaxCtxSessions == 1          \* sessions created in a context-builder run
MaxCtxAdds == 1              \* messages added to one Context before the reply
MaxTurns == 3                \* turns of one conversation
MaxTurnSessions == 2         \* sessions created while a conversation runs


\* Message(content, role): the content names the request r, its turn and the
\* place of the message in the turn (0 is the user message); the timestamp is
\* the time of construction.
Message(role, r, turn, seq, ts) ==
    [role |-> role, content |-> <<r, turn, seq>>, timestamp |-> ts]

\* Message.ser_model: the timestamp is written as an ISO string.
model_dump(m) ==
    [role |-> m.role, content |-> m.content, timestamp |-> <<"iso", m.timestamp>>]

\* Message(**msg): the ISO string is parsed back into a datetime.
MessageFromDict(d) ==
    [role |-> d.role, content |-> d.content, timestamp |-> d.timestamp[2]]

DumpAll(h) == [k \in 1..Len(h) |-> model_dump(h[k])]
LoadAll(h) == [k \in 1..Len(h) |-> MessageFromDict(h[k])]

NoContext ==
    [session_id |-> 0, message_history |-> <<>>, mcp_context |-> EmptyDict,
     llm_context |-> EmptyDict, correlation_id |-> NoCorrelationId]

\* A request: its position, the session id its client sends (0 before the
\* first one), the Context it holds, what the last write-back's update_session
\* returned, the turn of the conversation it is in, the length of the stored
\* history when its Context was built and the number of messages added to the
\* Context since; for a request made through the engine also the user and
\* the text it came with and the Response it was answered with.
NewRequest ==
    [pc |-> "idle", session_id |-> 0, context |-> NoContext, written |-> FALSE,
     turn |-> 1, base |-> 0, adds |-> 0, user_id |-> "none", message |-> <<>>,
     calls |-> <<>>, response |-> Response(<<>>, "none", EmptyDict)]

\* str(uuid.uuid4()): a value no earlier call returned
uuid4 == <<"uuid", uuid_count + 1>>

\* A mutation of build_context: the stored history is not copied.
BuiltContextFresh(sid, session, user_message, correlation_id) ==
    [session_id |-> sid,
     correlation_id |-> correlation_id,
     message_history |-> <<user_message>>,
     mcp_context |-> DictGet(session.context, "mcp", EmptyDict),
     llm_context |-> DictGet(session.context, "llm", EmptyDict)]

\* The Context build_context returns for a session that was found: the
\* session's blobs, a copy of its stored history, and the user message
\* appended to the copy only.
BuiltContext(sid, session, user_message, correlation_id) ==
    [session_id |-> sid,
     correlation_id |-> correlation_id,
     message_history |->
         Append(LoadAll(DictGet(session.context, "message_history", <<>>)),
                user_message),
     mcp_context |-> DictGet(session.context, "mcp", EmptyDict),
     llm_context |-> DictGet(session.context, "llm", EmptyDict)]

\* the "context" value _update_session_context hands to update_session
SessionUpdates(context) ==
    [mcp |-> context.mcp_context, llm |-> context.llm_context,
     message_history |-> DumpAll(context.message_history)]

\* build_context: the session is looked up through get_session; a session that
\* is absent, closed or expired raises ValueError.
build_context(r, sid) ==
    /\ requests[r].pc = "idle"
    /\ LET g == GetIn(sessions, sid)
           user_message == Message("user", r, requests[r].turn, 0, now)
       IN  /\ sessions' = g.store
           /\ requests' =
                IF g.found
                THEN [requests EXCEPT
                        ![r].pc = "built",
                        ![r].session_id = sid,
                        ![r].context =
                            BuiltContext(sid, g.store[sid], user_message, uuid4),
                        ![r].base =
                            Len(DictGet(g.store[sid].context, "message_history", <<>>)),
                        ![r].adds = 0]
                ELSE [requests EXCEPT ![r].pc = "failed", ![r].session_id = sid]
           /\ uuid_count' = IF g.found THEN uuid_count + 1 ELSE uuid_count
           /\ ret' = Ret("build_context", sid, IF g.found THEN "context" ELSE "error")
    /\ UNCHANGED <<now, budget>>

\* A mutation of the write-back: the session is updated before the message is
\* appended to the Context.
WriteBackStale(ss, context, message) ==
    UpdateIn(ss, context.session_id, "context", SessionUpdates(context))

\* context.add_message(message), then _update_session_context
WriteBack(ss, context, message) ==
    UpdateIn(ss, context.session_id, "context",
             SessionUpdates([context EXCEPT !.message_history = Append(@, message)]))

\* add_message_to_context: the Context gets the message, the session the
\* Context's blobs and history; what update_session returns is not looked at.
AddMessage(r, message, pcNext) ==
    LET u == WriteBack(sessions, requests[r].context, message)
    IN  /\ sessions' = u.store
        /\ requests' =
             [requests EXCEPT ![r].pc = pcNext,
                              ![r].context.message_history = Append(@, message),
                              ![r].written = u.ok,
                              ![r].adds = @ + 1]
        /\ ret' = Ret("add_message_to_context", requests[r].context.session_id,
                      "context")

\* add_message_to_context with the assistant's reply, the last step of a
\* request.
add_message_to_context(r) ==
    /\ requests[r].pc = "built"
    /\ AddMessage(r, Message("assistant", r, requests[r].turn, requests[r].adds + 1, now),
                  "done")
    /\ UNCHANGED <<now, budget, uuid_count>>

\* add_message_to_context called by a holder of the Context that goes on
\* using it.
add_more_to_context(r, role) ==
    /\ requests[r].pc = "built"
    /\ requests[r].adds < MaxCtxAdds
    /\ AddMessage(r, Message(role, r, requests[r].turn, requests[r].adds + 1, now),
                  "built")
    /\ UNCHANGED <<now, budget, uuid_count>>

\* The request has returned; the client sends the next message of the
\* conversation.
next_turn(r) ==
    /\ requests[r].pc = "done"
    /\ requests[r].turn < MaxTurns
    /\ requests' = [requests EXCEPT
                       ![r] = [NewRequest EXCEPT !.turn = requests[r].turn + 1,
                                                 !.session_id = requests[r].session_id]]
    /\ ret' = Ret("next_turn", r, "none")
    /\ UNCHANGED <<now, sessions, budget, uuid_count>>

ContextInit ==
    /\ now = 0
    /\ sessions = <<>>
    /\ budget = [creates |-> MaxCtxSessions, updates |-> 0]
    /\ ret = Ret("init", 0, "none")
    /\ requests = [r \in Requests |-> NewRequest]
    /\ RegIdle
    /\ LibIdle

\* Requests run concurrently with each other and with the expiry sweep: a
\* request is suspended between build_context and add_message_to_context while
\* its message is processed.
ContextNext ==
    \/ Tick /\ UNCHANGED nonStoreVars
    \/ \E u \in StoreUsers : create_session(u, "m0") /\ UNCHANGED nonStoreVars
    \/ \E sid \in CallerIds : close_session(sid) /\ UNCHANGED nonStoreVars
    \/ _cleanup_expired_sessions /\ UNCHANGED nonStoreVars
    \/ \E r \in Requests : \E sid \in CallerIds : build_context(r, sid) /\ UNCHANGED nonCtxVars
    \/ \E r \in Requests : add_message_to_context(r) /\ UNCHANGED nonCtxVars
    \/ \E r \in Requests : \E role \in {"user", "assistant"} :
          add_more_to_context(r, role) /\ UNCHANGED nonCtxVars

SpecContext == ContextInit /\ [][ContextNext]_vars

\* One conversation: the turns of a single client, which keeps to the session
\* id of its first turn; each turn is a build_context and the reply's
\* add_message_to_context, one after another.
TurnsInit ==
    /\ now = 0
    /\ sessions = <<>>
    /\ budget = [creates |-> MaxTurnSessions, updates |-> 0]
    /\ ret = Ret("init", 0, "none")
    /\ requests = [r \in {1} |-> NewRequest]
    /\ RegIdle
    /\ LibIdle

TurnsNext ==
    \/ Tick /\ UNCHANGED nonStoreVars
    \/ \E u \in StoreUsers : create_session(u, "m0") /\ UNCHANGED nonStoreVars
    \/ \E sid \in CallerIds : close_session(sid) /\ UNCHANGED nonStoreVars
    \/ _cleanup_expired_sessions /\ UNCHANGED nonStoreVars
    \/ \E r \in DOMAIN requests : \E sid \in CallerIds :
          /\ requests[r].session_id \in {0, sid}
          /\ build_context(r, sid) /\ UNCHANGED nonCtxVars
    \/ \E r \in DOMAIN requests : add_message_to_context(r) /\ UNCHANGED nonCtxVars
    \/ \E r \in DOMAIN requests : next_turn(r) /\ UNCHANGED nonCtxVars

SpecTurns == TurnsInit /\ [][TurnsNext]_vars

(***************************************************************************)
(* core/chatbot_engine.py: ChatbotEngine.process_message                   *)
(***************************************************************************)
MaxEngSessions == 2          \* sessions created in an engine run

EngineTexts == {<<"hello">>, <<"list", "files">>}

\* A mutation of process_message: a session id that is not found is answered
\* with a session created in its place.
process_message_build_recover(r, user_id, message, session_id) ==
    /\ requests[r].pc = "idle"
    /\ session_id = 0 => budget.creates > 0
    /\ LET known == session_id # 0 /\ GetIn(sessions, session_id).found
           got == IF known THEN GetIn(sessions, session_id)
                  ELSE [store |-> CreateIn(sessions, user_id, "m0"), found |-> TRUE]
           sid == IF known THEN session_id ELSE Len(sessions) + 1
           g == IF got.found THEN GetIn(got.store, sid) ELSE got
           user_message == Message("user", r, requests[r].turn, 0, now)
       IN  /\ sessions' = g.store
           /\ requests' =
                IF g.found
                THEN [requests EXCEPT
                        ![r].pc = "built",
                        ![r].session_id = session_id,
                        ![r].user_id = user_id,
                        ![r].message = message,
                        ![r].context =
                            BuiltContext(sid, g.store[sid], user_message, uuid4),
                        ![r].base =
                            Len(DictGet(g.store[sid].context, "message_history", <<>>)),
                        ![r].adds = 0]
                ELSE [requests EXCEPT ![r].pc = "failed",
                                      ![r].session_id = session_id,
                                      ![r].user_id = user_id,
                                      ![r].message = message]
           /\ uuid_count' = IF g.found THEN uuid_count + 1 ELSE uuid_count
           /\ ret' = Ret("process_message", session_id,
                         IF g.found THEN "context" ELSE "error")
    /\ budget' = IF session_id = 0 THEN [budget EXCEPT !.creates = @ - 1] ELSE budget
    /\ UNCHANGED <<now, nonCtxVars>>

\* process_message up to the call of the message processor: with a session id
\* the session is looked up and a missing one raises ValueError; without one a
\* session is created for the user; then the Context is built in that session.
\* The engine is running. No await between the lookup and the build suspends.
process_message_build(r, user_id, message, session_id) ==
    /\ requests[r].pc = "idle"
    /\ session_id = 0 => budget.creates > 0
    /\ LET got == IF session_id # 0 THEN GetIn(sessions, session_id)
                  ELSE [store |-> CreateIn(sessions, user_id, "m0"), found |-> TRUE]
           sid == IF session_id # 0 THEN session_id ELSE Len(sessions) + 1
           g == IF got.found THEN GetIn(got.store, sid) ELSE got
           user_message == Message("user", r, requests[r].turn, 0, now)
       IN  /\ sessions' = g.store
           /\ requests' =
                IF g.found
                THEN [requests EXCEPT
                        ![r].pc = "built",
                        ![r].session_id = session_id,
                        ![r].user_id = user_id,
                        ![r].message = message,
                        ![r].context =
                            BuiltContext(sid, g.store[sid], user_message, uuid4),
                        ![r].base =
                            Len(DictGet(g.store[sid].context, "message_history", <<>>)),
                        ![r].adds = 0]
                ELSE [requests EXCEPT ![r].pc = "failed",
                                      ![r].session_id = session_id,
                                      ![r].user_id = user_id,
                                      ![r].message = message]
           /\ uuid_count' = IF g.found THEN uuid_count + 1 ELSE uuid_count
           /\ ret' = Ret("process_message", session_id,
                         IF g.found THEN "context" ELSE "error")
    /\ budget' = IF session_id = 0 THEN [budget EXCEPT !.creates = @ - 1] ELSE budget
    /\ UNCHANGED <<now, nonCtxVars>>

\* the Context the message processor is called with
EngineContext(q) ==
    RouterContext(q.message,
                  [k \in 1..Len(q.context.message_history) |->
                      Turn(q.context.message_history[k].role,
                           q.context.message_history[k].content)],
                  EmptyDict)

\* process_message from the return of the message processor: the Response's
\* content is added to the Context as the assistant message and the Response
\* is returned.
process_message_reply(r, tool_ok, llm_ok) ==
    /\ requests[r].pc = "built"
    /\ LET result ==
               RouterResult(ReadyRouter(EngineContext(requests[r]), TRUE, 4000, TRUE, TRUE),
                            tool_ok, llm_ok)
           response == result.response
           response_message ==
               Message("assistant", r, requests[r].turn, requests[r].adds + 1, now)
           u == WriteBack(sessions, requests[r].context, response_message)
       IN  /\ sessions' = u.store
           /\ requests' =
                [requests EXCEPT ![r].pc = "done",
                                 ![r].context.message_history = Append(@, response_message),
                                 ![r].written = u.ok,
                                 ![r].adds = @ + 1,
                                 ![r].calls = result.calls,
                                 ![r].response = response]
           /\ ret' = Ret("process_message", requests[r].session_id, "response")
    /\ UNCHANGED <<now, budget, uuid_count, nonCtxVars>>

EngineInit ==
    /\ now = 0
    /\ sessions = <<>>
    /\ budget = [creates |-> MaxEngSessions, updates |-> 0]
    /\ ret = Ret("init", 0, "none")
    /\ requests = [r \in Requests |-> NewRequest]
    /\ RegIdle
    /\ LibIdle

\* Requests run concurrently with each other, with a client that closes a
\* session and with the expiry sweep.
EngineNext ==
    \/ Tick /\ UNCHANGED nonStoreVars
    \/ \E sid \in CallerIds : close_session(sid) /\ UNCHANGED nonStoreVars
    \/ _cleanup_expired_sessions /\ UNCHANGED nonStoreVars
    \/ \E r \in Requests : \E u \in StoreUsers : \E message \in EngineTexts :
          \E sid \in {0} \cup CallerIds : process_message_build(r, u, message, sid)
    \/ \E r \in Requests : \E tool_ok \in BOOLEAN : \E llm_ok \in BOOLEAN :
          process_message_reply(r, tool_ok, llm_ok)

SpecEngine == EngineInit /\ [][EngineNext]_vars

StoreInit ==
    /\ now = 0
    /\ sessions = <<>>
    /\ budget = [creates |-> MaxSessions, updates |-> MaxUpdates]
    /\ ret = Ret("init", 0, "none")
    /\ RegIdle
    /\ LibIdle
    /\ CtxIdle

\* The context values an outside caller of update_session may write.
CallerContexts == {EmptyDict, [k \in {"note"} |-> "n1"]}

StoreNext ==
    \/ Tick /\ UNCHANGED nonStoreVars
    \/ \E u \in StoreUsers : create_session(u, "m0") /\ UNCHANGED nonStoreVars
    \/ \E sid \in CallerIds : get_session(sid) /\ UNCHANGED nonStoreVars
    \/ \E sid \in CallerIds : close_session(sid) /\ UNCHANGED nonStoreVars
    \/ \E u \in StoreUsers : get_user_sessions(u) /\ UNCHANGED nonStoreVars
    \/ \E sid \in CallerIds : \E c \in CallerContexts :
          update_session(sid, "context", c) /\ UNCHANGED nonStoreVars
    \/ \E sid \in CallerIds : update_session(sid, "metadata", "m1") /\ UNCHANGED nonStoreVars
    \/ \E sid \in CallerIds : \E n \in ServerNames :
          add_mcp_server_to_session(sid, n) /\ UNCHANGED nonStoreVars
    \/ \E sid \in CallerIds : \E n \in ServerNames :
          remove_mcp_server_from_session(sid, n) /\ UNCHANGED nonStoreVars
    \/ \E sid \in CallerIds : set_session_llm_provider(sid, "openai") /\ UNCHANGED nonStoreVars
    \/ _cleanup_expired_sessions /\ UNCHANGED nonStoreVars

SpecStore == StoreInit /\ [][StoreNext]_vars

(***************************************************************************)
(* The cap scenario: creates, closes, expiry and the sweep for two users.  *)
(***************************************************************************)
CapInit ==
    /\ now = 0
    /\ sessions = <<>>
    /\ budget = [creates |-> MaxCapSessions, updates |-> 0]
    /\ ret = Ret("init", 0, "none")
    /\ RegIdle
    /\ LibIdle
    /\ CtxIdle

CapNext ==
    \/ Tick /\ UNCHANGED nonStoreVars
    \/ \E u \in Users : create_session(u, "m0") /\ UNCHANGED nonStoreVars
    \/ \E sid \in CallerIds : get_session(sid) /\ UNCHANGED nonStoreVars
    \/ \E sid \in CallerIds : close_session(sid) /\ UNCHANGED nonStoreVars
    \/ _cleanup_expired_sessions /\ UNCHANGED nonStoreVars

SpecCap == CapInit /\ [][CapNext]_vars

(***************************************************************************)
(* The event-loop scenario: the session sweep, session requests and tool   *)
(* calls over pipe transports run as coroutines of one asyncio event loop. *)
(* STDIOTransport.send_message writes the request and reads the reply line *)
(* with the synchronous Popen pipe calls, without an await in between.     *)
(***************************************************************************)
MaxLoopSessions == 2         \* sessions created in a run of the event-loop scenario
MaxLoopAdds == 2             \* servers added in a run of the event-loop scenario
MaxLoopCalls == 2            \* tool calls started in a run of the event-loop scenario

\* A coroutine takes a step only while the loop's thread is not inside a
\* blocking call.
LoopFree == event_loop.reading = "none"

\* send_message on the pipe of a connected server, up to the readline: the
\* request is written and the thread waits in stdout.readline().
stdio_send_message_read(name) ==
    /\ LoopFree
    /\ reg_budget.registry = "mcp"
    /\ reg_budget.calls > 0
    /\ Registered(servers, name)
    /\ servers[IndexOf(servers, name)].is_connected
    /\ servers[IndexOf(servers, name)].transport # 0
    /\ event_loop' = [reading |-> name]
    /\ reg_budget' = [reg_budget EXCEPT !.calls = @ - 1]
    /\ UNCHANGED <<llmVars, mcpVars, mgrVars>>

\* readline returns: the subprocess has written its reply line (ok) or closed
\* the pipe; send_message, send_request and call_tool run to their end.
stdio_send_message_return(ok) ==
    /\ ~LoopFree
    /\ servers' = PutEntry(servers,
                           server_call_tool(servers[IndexOf(servers, event_loop.reading)],
                                            ok).srv)
    /\ event_loop' = NoLoop
    /\ UNCHANGED <<llmVars, mcp_call, reg_budget, mgrVars>>

loop_tick == Tick /\ UNCHANGED nonStoreVars

\* one turn of SessionManager._cleanup_loop
loop_sweep == LoopFree /\ _cleanup_expired_sessions /\ UNCHANGED nonStoreVars

\* requests on sessions
loop_create_session(user_id) ==
    LoopFree /\ create_session(user_id, "m0") /\ UNCHANGED nonStoreVars

loop_get_session(sid) == LoopFree /\ get_session(sid) /\ UNCHANGED nonStoreVars

loop_add_server(name, co) ==
    /\ LoopFree
    /\ add_server(name, TRUE, co)
    /\ UNCHANGED <<nonRegVars, llmVars, health_check_task>>

\* a tool call on a server
loop_call_tool(name) ==
    /\ stdio_send_message_read(name)
    /\ UNCHANGED <<storeVars, lifeVars, iteration,
                   requests, priority, transports, router, uuid_count>>

LoopInit ==
    /\ iteration = NoIteration
    /\ now = 0
    /\ sessions = <<>>
    /\ budget = [creates |-> MaxLoopSessions, updates |-> 0]
    /\ ret = Ret("init", 0, "none")
    /\ CtxIdle
    /\ LibIdle
    /\ providers = <<>>
    /\ llm_call = IdleCall
    /\ servers = <<>>
    /\ mcp_call = IdleCall
    /\ reg_budget = [registry |-> "mcp", adds |-> MaxLoopAdds, calls |-> MaxLoopCalls]
    /\ health_check_task = NoTasks
    /\ mgr_ret = NoMgrRet

LoopNext ==
    \/ loop_tick
    \/ loop_sweep
    \/ \E u \in StoreUsers : loop_create_session(u)
    \/ \E sid \in CallerIds : loop_get_session(sid)
    \/ \E n \in MCPNames : \E co \in {"init_failed", "caps_tool"} : loop_add_server(n, co)
    \/ \E n \in MCPNames : loop_call_tool(n)
    \/ \E ok \in BOOLEAN :
          stdio_send_message_return(ok)
          /\ UNCHANGED <<storeVars, lifeVars, iteration,
                         requests, priority, transports, router, uuid_count>>

SpecLoop == LoopInit /\ [][LoopNext]_vars

(***************************************************************************)
(* core/session_manager.py: start, stop and the session_closed events      *)
(***************************************************************************)
MaxLifeSessions == 2         \* sessions created in a lifecycle run
MaxStarts == 1               \* starts of the session manager in a run
MaxEvents == 2               \* session_closed events counted per session

EventsOf(sid) == DictGet(session_closed, sid, 0)

\* publish_event("session_closed", ...) once for every id of the sequence
RECURSIVE PublishClosed(_, _)
PublishClosed(events, ids) ==
    IF ids = <<>> THEN events
    ELSE LET sid == Head(ids)
             n == DictGet(events, sid, 0)
         IN  PublishClosed([k \in DOMAIN events \cup {sid} |->
                               IF k = sid THEN n + 1 ELSE events[k]],
                           Tail(ids))

\* a set of session ids in dict order
RECURSIVE InOrder(_, _)
InOrder(ids, n) ==
    IF n = 0 THEN <<>>
    ELSE IF n \in ids THEN Append(InOrder(ids, n - 1), n) ELSE InOrder(ids, n - 1)

\* the events of a run are counted up to MaxEvents per session
CanPublish(ids) == \A i \in 1..Len(ids) : EventsOf(ids[i]) < MaxEvents

\* the ids close_session is called with by each operation
ClosedByCreate(user_id) ==
    LET user_sessions == _get_user_sessions(sessions, user_id)
    IN  IF Cardinality(user_sessions) >= max_sessions_per_user
        THEN <<OldestOf(sessions, user_sessions)>>
        ELSE <<>>
ClosedByGet(sid) ==
    IF sid \in SessionIds /\ sessions[sid].is_active /\ is_expired(sessions[sid])
    THEN <<sid>> ELSE <<>>
ClosedByClose(sid) == IF sid \in SessionIds THEN <<sid>> ELSE <<>>
ClosedBySweep == InOrder(ExpiredIds(sessions), Len(sessions))
ActiveIds(ss) == {i \in 1..Len(ss) : ss[i].is_active}

\* SessionManager.start
start ==
    /\ cleanup_task # "running"
    /\ budget.starts > 0
    /\ cleanup_task' = "running"
    /\ budget' = [budget EXCEPT !.starts = @ - 1]
    /\ ret' = Ret("start", 0, "none")
    /\ UNCHANGED <<now, sessions, session_closed, nonLifeVars>>

\* _cleanup_loop: a pass of the running task
_cleanup_loop ==
    /\ cleanup_task = "running"
    /\ CanPublish(ClosedBySweep)
    /\ _cleanup_expired_sessions
    /\ session_closed' = PublishClosed(session_closed, ClosedBySweep)
    /\ UNCHANGED <<cleanup_task, nonLifeVars>>

life_tick == Tick /\ UNCHANGED nonStoreVars

life_create_session(user_id) ==
    /\ CanPublish(ClosedByCreate(user_id))
    /\ create_session(user_id, "m0")
    /\ session_closed' = PublishClosed(session_closed, ClosedByCreate(user_id))
    /\ UNCHANGED <<cleanup_task, nonLifeVars>>

life_get_session(sid) ==
    /\ CanPublish(ClosedByGet(sid))
    /\ get_session(sid)
    /\ session_closed' = PublishClosed(session_closed, ClosedByGet(sid))
    /\ UNCHANGED <<cleanup_task, nonLifeVars>>

life_close_session(sid) ==
    /\ CanPublish(ClosedByClose(sid))
    /\ close_session(sid)
    /\ session_closed' = PublishClosed(session_closed, ClosedByClose(sid))
    /\ UNCHANGED <<cleanup_task, nonLifeVars>>

\* A mutation of _close_all_sessions: the sessions that have expired are closed,
\* the others are left as they are.
CloseAllSessionsExpired(ss) == ExpiredIds(ss)

\* _close_all_sessions: the ids it calls close_session with
CloseAllSessions(ss) == ActiveIds(ss)

\* stop with a cleanup task that runs: the task is cancelled and awaited; while
\* stop waits for it other coroutines run
stop_cancel ==
    /\ cleanup_task = "running"
    /\ cleanup_task' = "cancelling"
    /\ ret' = Ret("stop", 0, "awaiting")
    /\ UNCHANGED <<now, sessions, budget, session_closed, nonLifeVars>>

\* stop from the end of the wait, or all of stop when no task runs:
\* _close_all_sessions, then stop returns
stop_close ==
    /\ cleanup_task # "running"
    /\ LET ids == InOrder(CloseAllSessions(sessions), Len(sessions))
       IN  /\ CanPublish(ids)
           /\ sessions' = CloseAll(sessions, CloseAllSessions(sessions))
           /\ session_closed' = PublishClosed(session_closed, ids)
    /\ cleanup_task' = IF cleanup_task = "cancelling" THEN "cancelled" ELSE cleanup_task
    /\ ret' = Ret("stop", 0, "none")
    /\ UNCHANGED <<now, budget, nonLifeVars>>

LifeInit ==
    /\ now = 0
    /\ sessions = <<>>
    /\ budget = [creates |-> MaxLifeSessions, updates |-> 0, starts |-> MaxStarts]
    /\ ret = Ret("init", 0, "none")
    /\ RegIdle
    /\ CtxIdle
    /\ priority = NoPriority
    /\ transports = NoTransports
    /\ event_loop = NoLoop
    /\ router = NoRouter
    /\ uuid_count = 0
    /\ cleanup_task = "none"
    /\ session_closed = NoEvents

LifeNext ==
    \/ start
    \/ _cleanup_loop
    \/ life_tick
    \/ \E u \in StoreUsers : life_create_session(u)
    \/ \E sid \in CallerIds : life_get_session(sid)
    \/ \E sid \in CallerIds : life_close_session(sid)
    \/ stop_cancel
    \/ stop_close

SpecLife == LifeInit /\ [][LifeNext]_vars

(***************************************************************************)
(* The walk scenario: health_check and stop of the MCPManager walk the      *)
(* servers dict with awaits inside the loop, while add_server and          *)
(* remove_server run between the turns.                                    *)
(***************************************************************************)
MaxWalkAdds == 3             \* servers added in a run of the walk scenario
MaxWalks == 1                \* health-check passes started in a run of the walk scenario

WalkNames == MCPNames \cup {"web"}

\* A dict iterator: used is the size of the dict when the iterator was made,
\* pos the entries it has gone past.  next() raises RuntimeError ("dictionary
\* changed size during iteration") when the size differs, ends the loop after
\* the last entry, and yields the entry after pos otherwise.
NewIteration(op, q) ==
    [op |-> op, state |-> "running", used |-> Len(q), pos |-> 0, status |-> EmptyDict,
     stayed |-> NameSet(q)]

DictNext(it, q) ==
    IF Len(q) # it.used THEN "raise"
    ELSE IF it.pos >= Len(q) THEN "stop"
    ELSE "item"

Walking == iteration.state \in {"awaiting", "running"}

\* del d[name] under an iterator: the entry leaves a hole, so an iterator that
\* had gone past it is one entry further back in what is left.
IterationAfterDel(it, q, name) ==
    IF ~Registered(q, name) \/ it.state # "running" THEN it
    ELSE [it EXCEPT !.pos = IF IndexOf(q, name) <= @ THEN @ - 1 ELSE @,
                    !.stayed = @ \ {name}]

\* d[name] = handle under an iterator: a known key keeps its place with a new
\* handle, a new key goes last.
IterationAfterPut(it, name) ==
    IF it.state # "running" THEN it ELSE [it EXCEPT !.stayed = @ \ {name}]

RemoveEntry(q, name) == SelectSeq(q, LAMBDA e : e.name # name)

\* remove_server: an unknown name returns False; a known server is
\* disconnected and its key deleted.
remove_server(name) ==
    /\ mcp_call.pc # "loop"
    /\ reg_budget.registry = "mcp"
    /\ servers' = RemoveEntry(servers, name)
    /\ mgr_ret' = MgrRet("remove_server", "mcp", name, FALSE, FALSE,
                         Registered(servers, name),
                         IF Registered(servers, name)
                         THEN <<Op(name, "disconnect")>> ELSE <<>>)
    /\ UNCHANGED <<mcp_call, reg_budget, health_check_task>>

walk_add_server(name, valid, co) ==
    /\ add_server(name, valid, co)
    /\ iteration' = IF valid /\ co # "refused"
                    THEN IterationAfterPut(iteration, name) ELSE iteration
    /\ UNCHANGED health_check_task

walk_remove_server(name) ==
    /\ remove_server(name)
    /\ iteration' = IterationAfterDel(iteration, servers, name)

\* One turn of the loop of health_check: next() on the iterator of
\* self.servers.items(), then the loop body for the entry it yields.  The
\* RuntimeError of next() is raised outside the try of the body and leaves
\* health_check; _health_check_loop logs it.
HealthTurn(it, q, inp) ==
    LET nx == DictNext(it, q)
    IN  IF nx = "raise" THEN [it |-> [it EXCEPT !.state = "raised"], map |-> q]
        ELSE IF nx = "stop" THEN [it |-> [it EXCEPT !.state = "returned"], map |-> q]
        ELSE LET h == server_health_step(q[it.pos + 1], inp)
             IN  [it |-> [it EXCEPT !.pos = @ + 1,
                                    !.status = DictPut(@, q[it.pos + 1].name, h.val)],
                  map |-> [q EXCEPT ![it.pos + 1] = h.entry]]

\* how a connect ends in this scenario, and what the world does to one turn
WalkConnects == {"refused", "caps_tool"}
WalkInputs == [healthy : BOOLEAN, co : WalkConnects]

\* _health_check_loop wakes up and calls health_check: the iterator is made
\* and the first turn runs before anything else can.
health_check_begin(inp) ==
    /\ reg_budget.registry = "mcp"
    /\ health_check_task["mcp"] = "running"
    /\ ~Walking
    /\ reg_budget.calls > 0
    /\ reg_budget' = [reg_budget EXCEPT !.calls = @ - 1]
    /\ LET t == HealthTurn(NewIteration("health_check", servers), servers, inp)
       IN  /\ iteration' = t.it
           /\ servers' = t.map
           /\ mgr_ret' = MgrRet("health_check_turn", "mcp", "none", FALSE, FALSE,
                                t.it.status, <<>>)
    /\ UNCHANGED <<mcp_call, health_check_task>>

\* the loop of health_check resumes after the awaits of its body
health_check_turn(inp) ==
    /\ iteration.op = "health_check"
    /\ iteration.state = "running"
    /\ LET t == HealthTurn(iteration, servers, inp)
       IN  /\ iteration' = t.it
           /\ servers' = t.map
           /\ mgr_ret' = MgrRet("health_check_turn", "mcp", "none", FALSE, FALSE,
                                t.it.status, <<>>)
    /\ UNCHANGED <<mcp_call, reg_budget, health_check_task>>

\* stop up to its await of the cancelled task: a pass in progress ends there.
stop_begin ==
    /\ reg_budget.registry = "mcp"
    /\ ~(iteration.op = "stop" /\ Walking)
    /\ health_check_task' =
          [health_check_task EXCEPT
              !["mcp"] = IF @ = "none" THEN "none" ELSE "cancelled"]
    /\ iteration' = [NoIteration EXCEPT !.op = "stop", !.state = "awaiting"]
    /\ mgr_ret' = MgrRet("stop", "mcp", "none", FALSE, FALSE, FALSE, <<>>)
    /\ UNCHANGED <<servers, mcp_call, reg_budget>>

\* One turn of the loop of stop over self.servers.values(): the server the
\* iterator yields is disconnected; after the last one the dict is cleared.
\* The RuntimeError of next() is caught by the except of stop, which logs it
\* and returns: the servers not yet reached stay connected and registered.
stop_turn ==
    /\ iteration.op = "stop"
    /\ Walking
    /\ LET it == IF iteration.state = "awaiting"
                 THEN NewIteration("stop", servers) ELSE iteration
           nx == DictNext(it, servers)
       IN  /\ iteration' = IF nx = "raise" THEN [it EXCEPT !.state = "raised"]
                           ELSE IF nx = "stop" THEN [it EXCEPT !.state = "returned"]
                           ELSE [it EXCEPT !.pos = @ + 1]
           /\ servers' = IF nx = "raise" THEN servers
                         ELSE IF nx = "stop" THEN <<>>
                         ELSE [servers EXCEPT ![it.pos + 1] = server_disconnect(@)]
    /\ mgr_ret' = MgrRet("stop_turn", "mcp", "none", FALSE, FALSE, FALSE, <<>>)
    /\ UNCHANGED <<mcp_call, reg_budget, health_check_task>>

WalkInit ==
    /\ StoreIdle
    /\ CtxIdle
    /\ LibIdle
    /\ providers = <<>>
    /\ llm_call = IdleCall
    /\ servers = <<>>
    /\ mcp_call = IdleCall
    /\ reg_budget = [registry |-> "mcp", adds |-> MaxWalkAdds, calls |-> MaxWalks]
    /\ health_check_task = NoTasks
    /\ mgr_ret = NoMgrRet
    /\ iteration = NoIteration

WalkNext ==
    \/ \E n \in WalkNames : \E valid \in BOOLEAN : \E co \in WalkConnects :
          walk_add_server(n, valid, co) /\ UNCHANGED <<nonMgrVars, llmVars>>
    \/ \E n \in WalkNames : walk_remove_server(n) /\ UNCHANGED <<nonMgrVars, llmVars>>
    \/ mcp_start /\ UNCHANGED <<nonMgrVars, llmVars, iteration>>
    \/ \E inp \in WalkInputs : health_check_begin(inp) /\ UNCHANGED <<nonMgrVars, llmVars>>
    \/ \E inp \in WalkInputs : health_check_turn(inp) /\ UNCHANGED <<nonMgrVars, llmVars>>
    \/ stop_begin /\ UNCHANGED <<nonMgrVars, llmVars>>
    \/ stop_turn /\ UNCHANGED <<nonMgrVars, llmVars>>

SpecWalk == WalkInit /\ [][WalkNext]_vars

(***************************************************************************)
(* Claims about the session store.                                         *)
(***************************************************************************)
Idle(s) == now - s.last_activity
ActiveOf(ss, u) == {i \in 1..Len(ss) : ss[i].user_id = u /\ ss[i].is_active}
IsGetOf(r, sid) == r.op = "get_session" /\ r.arg = sid

C2_EvictExactlyOldest ==
    [][\A u \in Users :
        (/\ ret'.op = "create_session"
         /\ Len(sessions') = Len(sessions) + 1
         /\ sessions'[Len(sessions')].user_id = u
         /\ Cardinality(ActiveOf(sessions, u)) >= max_sessions_per_user)
        => LET act == ActiveOf(sessions, u)
               victim == OldestOf(sessions, act)
           IN  /\ ~sessions'[victim].is_active
               /\ \A i \in act \ {victim} : sessions'[i].is_active
               /\ sessions'[Len(sessions')].is_active]_vars

\* C3: no user ever has more than max_sessions_per_user active sessions.
C3_PerUserCap ==
    \A u \in Users : Cardinality(ActiveOf(sessions, u)) <= max_sessions_per_user

\* C9: inactive is terminal: no store operation sets an inactive session's flag
\* back to true or changes its context blob, metadata, server list or provider.
C9_InactiveIsTerminal ==
    [][\A sid \in SessionIds :
        ~sessions[sid].is_active
            => /\ ~sessions'[sid].is_active
               /\ sessions'[sid].context = sessions[sid].context
               /\ sessions'[sid].metadata = sessions[sid].metadata
               /\ sessions'[sid].mcp_servers = sessions[sid].mcp_servers
               /\ sessions'[sid].llm_provider = sessions[sid].llm_provider]_vars

\* C9 witness: a field update was refused on an inactive session while another
\* session of the store had been created after it was closed by the cap.
C9_Witness ==
    /\ ret.op \in {"update_session", "add_mcp_server_to_session",
                   "remove_mcp_server_from_session", "set_session_llm_provider"}
    /\ ret.val = "false"
    /\ ret.arg \in SessionIds
    /\ ~sessions[ret.arg].is_active
    /\ Idle(sessions[ret.arg]) <= session_timeout

(***************************************************************************)
(* Registry dispatch: claims C4 to C7                                      *)
(***************************************************************************)
IsPrefix(a, b) == Len(a) <= Len(b) /\ SubSeq(b, 1, Len(a)) = a
LogNames(call) == [k \in 1..Len(call.log) |-> call.log[k].name]
AllFailed(call) == call.pc = "raised" /\ call.error = "all_failed"

RECURSIVE AdvertisingServers(_)
\* The candidates the specification gives an untargeted call_tool: the servers,
\* in map order, whose capability map lists the tool under "tools".
AdvertisingServers(q) ==
    IF q = <<>> THEN <<>>
    ELSE LET s == Head(q)
             rest == AdvertisingServers(Tail(q))
         IN  IF has_capability(s, "tools") /\ ToolName \in s.capabilities["tools"]
             THEN <<s.name>> \o rest ELSE rest

\* An untargeted dispatch takes its candidates in the declared order, one per
\* turn, stops at the first success with that candidate's output, and gives up
\* only after the last candidate.
FirstSuccessWins(call, order) ==
    (call.target = "none" /\ call.pc # "idle") =>
        /\ IsPrefix(LogNames(call), order)
        /\ \A k \in 1..Len(call.log) :
              call.log[k].outcome = "ok" =>
                  /\ k = Len(call.log)
                  /\ call.pc = "returned"
                  /\ call.result = call.log[k].name
        /\ call.pc = "returned" =>
              /\ call.log # <<>>
              /\ call.log[Len(call.log)].outcome = "ok"
        /\ call.pc = "raised" => LogNames(call) = order

\* C4: registry fallback without an explicit target, in both registries: the
\* candidates are attempted one at a time in declared priority order, the call
\* returns the output of the first candidate that succeeds, and no candidate
\* after that one is called.
C4_FirstSuccessWins ==
    /\ FirstSuccessWins(llm_call, _get_provider_priority_list(llm_call.snap))
    /\ FirstSuccessWins(mcp_call, AdvertisingServers(mcp_call.snap))

\* The turn of generate_response just taken ended in a failed call of entry i.
FailedCallOf(i) ==
    /\ llm_call.pc = "loop"
    /\ Len(llm_call'.log) = Len(llm_call.log) + 1
    /\ llm_call'.log[Len(llm_call'.log)].outcome = "failed"
    /\ llm_call'.log[Len(llm_call'.log)].name = providers[i].name

\* One failing call of a registry entry counts one request and one error: for a
\* provider over the turn of the loop in which its call failed, for a server
\* handle over the call itself (the reconnect after it sends "initialize").
FailedCallCountsOnce ==
    /\ \A i \in 1..Len(providers) :
          FailedCallOf(i) =>
              /\ providers'[i].error_count = providers[i].error_count + 1
              /\ providers'[i].request_count = providers[i].request_count + 1
    /\ \A i \in 1..Len(servers) :
          LET g == server_call_tool(servers[i], FALSE)
          IN  servers[i].is_connected =>
                  /\ g.srv.error_count = servers[i].error_count + 1
                  /\ g.srv.request_count = servers[i].request_count + 1

\* The dispatch that just returned tried A, whose call failed, then B.
FailedThenSucceeded(call) ==
    /\ Len(call.log) = 2
    /\ call.log[1].outcome = "failed"
    /\ call.log[2].outcome = "ok"

\* C5: a failed call on a registry candidate adds exactly 1 to its error count
\* and exactly 1 to its request count, whatever the way it fails (a non-200
\* answer included); when A fails and B succeeds the result is B's output,
\* A.error_count has grown by exactly 1 and B.error_count is unchanged.
C5_FailedCallCountsOnce ==
    [][/\ FailedCallCountsOnce
       /\ (llm_call.pc = "loop" /\ llm_call'.pc = "returned"
              /\ FailedThenSucceeded(llm_call')) =>
            LET a == IndexOf(providers, llm_call'.log[1].name)
                b == IndexOf(providers, llm_call'.log[2].name)
            IN  /\ llm_call'.result = providers[b].name
                /\ providers'[a].error_count = llm_call.snap[a].error_count + 1
                /\ providers'[b].error_count = llm_call.snap[b].error_count]_vars

RECURSIVE LastFailure(_)
\* the error of the last candidate of the log whose call raised
LastFailure(log) ==
    IF log = <<>> THEN NoError
    ELSE LET e == log[Len(log)]
         IN  IF e.outcome = "failed" THEN CandError(e.name, e.kind)
             ELSE LastFailure(SubSeq(log, 1, Len(log) - 1))

\* A dispatch whose candidates all failed ends in the aggregate error.
AllFailedRaises(call) ==
    (call.pc \in {"returned", "raised"} /\ call.log # <<>>
        /\ \A k \in 1..Len(call.log) : call.log[k].outcome # "ok") =>
            AllFailed(call)

\* C6 as stated: when every candidate fails, by a failed call or by a failed
\* reconnect, the aggregate error carries the error of the last candidate.
C6_AggregateCarriesLastCandidateError ==
    \A call \in {llm_call, mcp_call} :
        /\ AllFailedRaises(call)
        /\ (AllFailed(call) /\ call.log # <<>>) =>
              LET e == call.log[Len(call.log)]
              IN  call.last_error = CandError(e.name, e.kind)

\* C6: when every candidate of a dispatch fails, the call raises the aggregate
\* all-candidates-failed error, and that error carries the error of the last
\* candidate whose call raised, or no error when no call raised (every
\* candidate was disconnected and could not be reconnected).
C6_AggregateCarriesLastRaisedError ==
    \A call \in {llm_call, mcp_call} :
        /\ AllFailedRaises(call)
        /\ AllFailed(call) =>
              /\ call.todo = <<>>
              /\ \A k \in 1..Len(call.log) : call.log[k].outcome # "ok"
              /\ call.last_error = LastFailure(call.log)

\* Every candidate failed, the last one by a failed reconnect after an earlier
\* one's call had raised.
C6_Witness ==
    /\ AllFailed(llm_call)
    /\ Len(llm_call.log) >= 2
    /\ llm_call.log[Len(llm_call.log)].outcome = "skipped"
    /\ llm_call.last_error # NoError

\* The step in which a dispatch gives up after its last candidate.
GivesUp(call, callNext) == call.pc = "loop" /\ AllFailed(callNext)

\* C7 as stated: when all candidates fail, registry membership and every
\* candidate's connected flag, handle and capability map are as before the call.
C7_NoMutationBeyondErrorCounter ==
    [][/\ GivesUp(llm_call, llm_call') =>
            /\ Names(providers') = Names(llm_call.snap)
            /\ \A i \in 1..Len(providers') :
                  /\ providers'[i].is_connected = llm_call.snap[i].is_connected
                  /\ providers'[i].session = llm_call.snap[i].session
       /\ GivesUp(mcp_call, mcp_call') =>
            /\ Names(servers') = Names(mcp_call.snap)
            /\ \A i \in 1..Len(servers') :
                  /\ servers'[i].is_connected = mcp_call.snap[i].is_connected
                  /\ servers'[i].transport = mcp_call.snap[i].transport
                  /\ servers'[i].capabilities = mcp_call.snap[i].capabilities]_vars

\* C7: when all candidates fail, registry membership is as before the call and
\* every entry that was not a candidate is untouched; each candidate has been
\* reconnected, so it holds a handle created during the call, and its counters
\* have not decreased.
C7_FailedDispatchFrame ==
    [][/\ GivesUp(llm_call, llm_call') =>
            /\ Names(providers') = Names(llm_call.snap)
            /\ \A i \in 1..Len(providers') :
                  IF SeqContains(LogNames(llm_call'), providers'[i].name)
                  THEN /\ providers'[i].session > llm_call.snap[i].made
                       /\ providers'[i].error_count >= llm_call.snap[i].error_count
                       /\ providers'[i].request_count >= llm_call.snap[i].request_count
                  ELSE providers'[i] = llm_call.snap[i]
       /\ GivesUp(mcp_call, mcp_call') =>
            /\ Names(servers') = Names(mcp_call.snap)
            /\ \A i \in 1..Len(servers') :
                  IF SeqContains(LogNames(mcp_call'), servers'[i].name)
                  THEN /\ servers'[i].transport > mcp_call.snap[i].made
                       /\ servers'[i].error_count >= mcp_call.snap[i].error_count
                       /\ servers'[i].request_count >= mcp_call.snap[i].request_count
                  ELSE servers'[i] = mcp_call.snap[i]]_vars

\* A call_tool gave up on its candidate, which now has another capability map
\* and another transport than before the call.
C7_Witness ==
    /\ AllFailed(mcp_call)
    /\ mcp_call.log # <<>>
    /\ \E i \in 1..Len(servers) :
          /\ Len(mcp_call.snap) >= i
          /\ servers[i].name = mcp_call.log[1].name
          /\ mcp_call.snap[i].name = servers[i].name
          /\ servers[i].capabilities # mcp_call.snap[i].capabilities
          /\ servers[i].transport # mcp_call.snap[i].transport


(***************************************************************************)
(* Registry dispatch: claims C14 and C15                                   *)
(***************************************************************************)
\* The dispatch named a target that was not in the map when it started.
UnknownTarget(call) ==
    /\ call.pc # "idle"
    /\ call.target # "none"
    /\ \A i \in 1..Len(call.snap) : call.snap[i].name # call.target

\* C14: a dispatch with an explicit target that is not registered fails with
\* the not-found error naming the target and calls no entry; for the provider
\* registry whenever it holds a provider, for the server registry in every
\* registry state, a registry without servers included.
C14_UnknownTargetNotFound ==
    /\ (UnknownTarget(llm_call) /\ llm_call.snap # <<>>) =>
          /\ llm_call.pc = "raised"
          /\ llm_call.error = "not_found"
          /\ llm_call.log = <<>>
    /\ UnknownTarget(mcp_call) =>
          /\ mcp_call.pc = "raised"
          /\ mcp_call.error = "not_found"
          /\ mcp_call.log = <<>>

\* C15: call_tool without a target calls only servers whose capability map
\* lists the tool under "tools", in map order; when no registered server lists
\* it, the call fails with the no-servers-found-with-tool error and calls no
\* server.
C15_OnlyAdvertisingServers ==
    (mcp_call.pc # "idle" /\ mcp_call.target = "none" /\ mcp_call.snap # <<>>) =>
        /\ IsPrefix(LogNames(mcp_call), AdvertisingServers(mcp_call.snap))
        /\ AdvertisingServers(mcp_call.snap) = <<>> =>
              /\ mcp_call.pc = "raised"
              /\ mcp_call.error = "no_servers_with_tool"
              /\ mcp_call.log = <<>>

(***************************************************************************)
(* Provider priority list: claim C16                                       *)
(***************************************************************************)
\* the place of name in q: its first index, or 0
FirstIndex(q, name) ==
    IF SeqContains(q, name)
    THEN CHOOSE i \in 1..Len(q) : q[i] = name /\ \A j \in 1..(i - 1) : q[j] # name
    ELSE 0

\* 0 for the configured default, 1 for a configured fallback, 2 for the rest
PriorityClass(p, name) ==
    IF name = p.default THEN 0
    ELSE IF SeqContains(p.fallbacks, name) THEN 1
    ELSE 2

\* name a comes before name b: by class, then by the configured order among
\* fallbacks and by the map's order among the rest
ComesBefore(p, a, b) ==
    \/ PriorityClass(p, a) < PriorityClass(p, b)
    \/ /\ PriorityClass(p, a) = 1
       /\ PriorityClass(p, b) = 1
       /\ FirstIndex(p.fallbacks, a) < FirstIndex(p.fallbacks, b)
    \/ /\ PriorityClass(p, a) = 2
       /\ PriorityClass(p, b) = 2
       /\ FirstIndex(p.snap, a) < FirstIndex(p.snap, b)

\* C16: for every set of registered providers and every default/fallback
\* configuration the priority list holds the default first (if registered),
\* then the registered fallbacks in their configured order, then the other
\* registered providers in map order; every registered provider is listed
\* exactly once and no unregistered name is listed.
C16_PriorityListOrder ==
    /\ {priority.list[i] : i \in 1..Len(priority.list)} =
          {priority.snap[i] : i \in 1..Len(priority.snap)}
    /\ Len(priority.list) = Len(priority.snap)
    /\ \A i, j \in 1..Len(priority.list) :
          i < j => ComesBefore(priority, priority.list[i], priority.list[j])

\* A list computed with the default unregistered, one fallback unregistered,
\* and the registered fallback later in the map than the other provider.
C16_Witness ==
    /\ priority.default = "anthropic"
    /\ priority.fallbacks = <<"openai", "anthropic">>
    /\ priority.snap = <<"ollama", "openai">>
    /\ priority.list = <<"openai", "ollama">>

(***************************************************************************)
(* Manager lifecycle: claims C17, C18 and C19                              *)
(***************************************************************************)
\* the registry map of the manager a run exercises
RegistryMap == IF reg_budget.registry = "llm" THEN providers ELSE servers

\* the connection object of an entry: the client handle or the transport
Handle(e) == IF reg_budget.registry = "llm" THEN e.session ELSE e.transport

\* the step is one health-check pass
PassStep == reg_budget'.calls < reg_budget.calls /\ mgr_ret'.op = "health_check"

\* the places of a call in a sequence of calls
Places(ops, op) == {k \in 1..Len(ops) : ops[k] = op}

\* C17: one health-check pass calls validate_connection on every registered
\* entry and returns one boolean per registered name and nothing else; an
\* entry that fails validation while marked connected is disconnected and
\* then connected again, in that order; an entry that passes validation is
\* neither disconnected nor connected again.
C17_HealthCheckPass ==
    [][PassStep =>
        LET ops == mgr_ret'.ops
            status == mgr_ret'.val
        IN  /\ DOMAIN status = {RegistryMap[i].name : i \in 1..Len(RegistryMap)}
            /\ Len(RegistryMap') = Len(RegistryMap)
            /\ \A i \in 1..Len(RegistryMap) :
                  LET e == RegistryMap[i]
                      v == Places(ops, Op(e.name, "validate_connection"))
                      d == Places(ops, Op(e.name, "disconnect"))
                      c == Places(ops, Op(e.name, "connect"))
                  IN  /\ status[e.name] \in BOOLEAN
                      /\ Cardinality(v) = 1
                      /\ (~status[e.name] /\ e.is_connected) =>
                            \E k \in v : d = {k + 1} /\ c = {k + 2}
                      /\ status[e.name] =>
                            /\ d = {}
                            /\ c = {}
                            /\ Handle(RegistryMap'[i]) = Handle(e)
                            /\ RegistryMap'[i].is_connected = e.is_connected
    ]_vars

\* A pass over two entries has left one alone and reconnected the other.
C17_Witness ==
    /\ mgr_ret.op = "health_check"
    /\ Len(RegistryMap) = 2
    /\ Len(mgr_ret.ops) = 4
    /\ \E n \in DOMAIN mgr_ret.val : mgr_ret.val[n]
    /\ \E n \in DOMAIN mgr_ret.val :
          /\ ~mgr_ret.val[n]
          /\ Places(mgr_ret.ops, Op(n, "connect")) # {}

\* the step is one add_server or add_provider
AddEntryStep == reg_budget'.adds < reg_budget.adds

\* C18: add_server and add_provider register the entry only if its
\* configuration passes validation and its connect succeeds, and then return
\* true; otherwise they return false and leave the registry map unchanged.
C18_AddOnlyValidConnected ==
    [][AddEntryStep =>
        LET r == mgr_ret'
            accepted == r.valid /\ r.connected
        IN  /\ r.op \in {"add_server", "add_provider"}
            /\ r.val = accepted
            /\ accepted =>
                  /\ Registered(RegistryMap', r.name)
                  /\ RegistryMap'[IndexOf(RegistryMap', r.name)].is_connected
                  /\ \A i \in 1..Len(RegistryMap) :
                        RegistryMap[i].name # r.name => RegistryMap'[i] = RegistryMap[i]
            /\ ~accepted => RegistryMap' = RegistryMap
    ]_vars

\* An add with a valid configuration whose connect failed has returned false
\* on a manager that holds an entry.
C18_Witness ==
    /\ mgr_ret.op \in {"add_server", "add_provider"}
    /\ mgr_ret.valid
    /\ ~mgr_ret.connected
    /\ mgr_ret.val = FALSE
    /\ RegistryMap # <<>>

\* C19: when stop has returned, every entry that was registered has been
\* disconnected, the registry holds no entries and health_check_task is None;
\* the cancelled health-check task makes no further pass: a pass is made only
\* while the task runs.
C19_StopLeavesNothing ==
    [][/\ (mgr_ret'.op = "stop" /\ mgr_ret' # mgr_ret) =>
            /\ mgr_ret'.ops = DisconnectOps(RegistryMap)
            /\ RegistryMap' = <<>>
            /\ health_check_task'[reg_budget.registry] = "none"
       /\ PassStep => health_check_task[reg_budget.registry] = "running"
    ]_vars

(***************************************************************************)
(* Transport replies: claim C20                                            *)
(***************************************************************************)
\* C20: send_request returns a reply only if the reply's id equals the id of
\* the request and the reply contains exactly one of "result" and "error"; a
\* reply with a different id, or with both a result and an error, is rejected:
\* the call raises instead of returning it.
C20_ReplyMatchesRequest ==
    \A tid \in TransportIds :
        LET t == transports[tid]
            \* a JSON-RPC 2.0 reply that carries an id has come back
            received == t.reply.jsonrpc = "2.0" /\ t.reply.id # <<>>
        IN  /\ (t.sent # <<>> /\ ~t.ret.raised) =>
                  /\ t.reply.id = t.sent
                  /\ t.reply.result # t.reply.error
            /\ (received /\ (t.reply.id # t.sent \/ (t.reply.result /\ t.reply.error))) =>
                  t.ret.raised

(***************************************************************************)
(* Request ids: claim C21                                                  *)
(***************************************************************************)
\* the step is a send_request on transport object tid
SendStep(tid) == transports'[tid].calls = transports[tid].calls + 1

\* C21: every transport object issues request ids from its own counter: its
\* k-th send_request carries the id str(k), also when earlier requests
\* failed; ids strictly increase and are never reused on that object; a
\* send_request on one object leaves the counter of every other object alone.
C21_RequestIdsPerTransport ==
    [][\A tid \in TransportIds :
          SendStep(tid) =>
             /\ transports'[tid].sent = str(transports'[tid].calls)
             /\ transports'[tid].request_id > transports[tid].request_id
             /\ transports[tid].sent # <<>> =>
                   transports'[tid].sent[2] > transports[tid].sent[2]
             /\ \A other \in TransportIds \ {tid} :
                   /\ transports'[other].request_id = transports[other].request_id
                   /\ transports'[other].sent = transports[other].sent
    ]_vars

\* One object has issued the id "2" on a request that failed, the other the
\* id "1".
C21_Witness ==
    \E tid, other \in TransportIds :
        /\ tid # other
        /\ transports[tid].calls = 2
        /\ transports[tid].sent = str(2)
        /\ transports[tid].ret.raised
        /\ transports[other].calls = 1
        /\ transports[other].sent = str(1)

(***************************************************************************)
(* A slow tool subprocess: claim C22                                       *)
(***************************************************************************)
\* C22: while a send_request on a pipe transport waits for the reply line of
\* its subprocess, the session-expiry sweep, requests on sessions and tool
\* calls on other servers can still take steps.
C22_PendingReadBlocksNothing ==
    ~LoopFree =>
        /\ ENABLED loop_sweep
        /\ \A sid \in SessionIds : ENABLED loop_get_session(sid)
        /\ \A n \in MCPNames \ {event_loop.reading} :
              (/\ Registered(servers, n)
               /\ servers[IndexOf(servers, n)].is_connected
               /\ reg_budget.calls > 0) => ENABLED loop_call_tool(n)

(***************************************************************************)
(* Connect with a failed initialize: claim C23                             *)
(***************************************************************************)
\* the only request the handle has sent is the "initialize" of its only
\* connect, and it failed
InitializeFailed(s) == s.made = 1 /\ s.request_count = 1 /\ s.error_count = 1

\* C23: when the transport connects and the "initialize" request fails,
\* connect still returns true (add_server, which registers a handle only if
\* its connect returned true, registers it), the handle is marked connected,
\* and its capability map holds empty "tools" and "resources" maps, so the
\* handle advertises no tool.
C23_ConnectSurvivesFailedInitialize ==
    \A i \in 1..Len(servers) :
          InitializeFailed(servers[i]) =>
             /\ servers[i].is_connected
             /\ servers[i].transport # 0
             /\ has_capability(servers[i], "tools")
             /\ has_capability(servers[i], "resources")
             /\ servers[i].capabilities["tools"] = {}
             /\ servers[i].capabilities["resources"] = {}
             /\ AdvertisingServers(<<servers[i]>>) = <<>>

\* add_server has just registered a handle whose "initialize" failed.
C23_Witness ==
    /\ mgr_ret.op = "add_server"
    /\ mgr_ret.val = TRUE
    /\ Registered(servers, mgr_ret.name)
    /\ InitializeFailed(servers[IndexOf(servers, mgr_ret.name)])
    /\ servers[IndexOf(servers, mgr_ret.name)].capabilities = BasicCaps

(***************************************************************************)
(* Routing: claim C24                                                      *)
(***************************************************************************)
Routed(text) == router.pc = "done" /\ router.context.message = text

\* C24: "list files in the current directory" is classified tool-only with
\* derived tool list_files, "explain how TCP works" model-only, and
\* "analyze this log file and explain the errors" hybrid.
C24_ExampleClassification ==
    /\ Routed(Text1) =>
          /\ router.strategy = "mcp_only"
          /\ _extract_mcp_request(Text1) = "list_files"
          /\ router.mcp_manager => router.calls = <<ToolCall("list_files")>>
    /\ Routed(Text2) => router.strategy = "llm_only"
    /\ Routed(Text3) => router.strategy = "hybrid"

(***************************************************************************)
(* Tool-only failure: claim C25                                            *)
(***************************************************************************)
ToolOnlyFailed ==
    /\ router.pc = "done"
    /\ router.strategy = "mcp_only"
    /\ router.mcp_manager
    /\ ~router.tool_ok

\* C25: when the registry call of the tool-only path fails, the path returns
\* a Reply whose status is partial if fallback-to-model is enabled and error
\* if it is disabled, never success.
C25_ToolOnlyFailureStatus ==
    ToolOnlyFailed =>
       /\ router.calls = <<ToolCall(_extract_mcp_request(router.context.message))>>
       /\ router.response.status =
             (IF router.enable_mcp_fallback THEN "partial" ELSE "error")
       /\ router.response.status # "success"
       /\ "error" \in DOMAIN router.response.metadata

C25_Witness == ToolOnlyFailed /\ router.enable_mcp_fallback

(***************************************************************************)
(* Hybrid path: claim C26                                                  *)
(***************************************************************************)
HybridDone ==
    /\ router.pc = "done"
    /\ router.strategy = "hybrid"
    /\ router.mcp_manager
    /\ router.llm_manager

\* the text of the current turn a model call was made with
CalledOn(call) == call.messages[Len(call.messages)].content

\* C26: on the hybrid path the tool step runs first; if it succeeds the model
\* is called on the rewritten message embedding the tool output; if the
\* registry call raises, the model is called on the original request text,
\* whatever the fallback-to-model option says.
C26_HybridToolThenModel ==
    HybridDone =>
       /\ Len(router.calls) = 2
       /\ router.calls[1] = ToolCall(_extract_mcp_request(router.context.message))
       /\ router.calls[2].to = "llm"
       /\ router.tool_ok =>
             CalledOn(router.calls[2]) =
                EnhancedMessage(<<"result of", router.calls[1].tool_name>>,
                                router.context.message)
       /\ ~router.tool_ok => CalledOn(router.calls[2]) = router.context.message

(***************************************************************************)
(* Reply metadata: claim C27                                               *)
(***************************************************************************)
\* the reply was produced with a tool: a tool call was made and succeeded
ProducedWithTool ==
    /\ \E i \in 1..Len(router.calls) : router.calls[i].to = "mcp"
    /\ router.tool_ok

\* C27: every Reply of the router, failure replies included, has a status in
\* {success, partial, error} and metadata.processing_strategy naming the
\* strategy that handled the request; a reply produced with a tool also has
\* metadata.tool_used.
C27_ReplyStatusAndMetadata ==
    router.pc = "done" =>
       /\ router.response.status \in {"success", "partial", "error"}
       /\ "processing_strategy" \in DOMAIN router.response.metadata
       /\ router.response.metadata["processing_strategy"] = router.strategy
       /\ ProducedWithTool => "tool_used" \in DOMAIN router.response.metadata

(***************************************************************************)
(* Turn assembly: claim C28                                                *)
(***************************************************************************)
ModelOnlyCalled ==
    /\ router.pc = "done"
    /\ router.strategy = "llm_only"
    /\ router.llm_manager

RECURSIVE TotalLength(_)
TotalLength(turns) ==
    IF turns = <<>> THEN 0 ELSE Len(Head(turns).content) + TotalLength(Tail(turns))

\* C28: the turns sent on the model-only path are the system prompt (when the
\* metadata has one) first, then a trailing part of the history in its
\* original order whose total length is within max_context_length, then the
\* current message last.
C28_TurnOrder ==
    ModelOnlyCalled =>
       LET context == router.context
           messages == router.calls[1].messages
           history == context.message_history
           prompted == "system_prompt" \in DOMAIN context.metadata
           first == IF prompted THEN 1 ELSE 0
           taken == Len(messages) - first - 1
       IN  /\ Len(router.calls) = 1
           /\ prompted => messages[1] = Turn("system", context.metadata["system_prompt"])
           /\ messages[Len(messages)] = Turn("user", context.message)
           /\ taken \in 0..Len(history)
           /\ \A j \in 1..taken : messages[first + j] = history[Len(history) - taken + j]
           /\ TotalLength(SubSeq(messages, first + 1, first + taken))
                 <= router.max_context_length

(***************************************************************************)
(* Context write-back: claim C8                                            *)
(***************************************************************************)
StoredHistory(sid) == DictGet(sessions[sid].context, "message_history", <<>>)

\* C8: no lost updates on a session: when requests on the same session id
\* interleave with each other or with the expiry sweep, every message an
\* add_message_to_context call added is in the session's stored history once
\* the requests have completed.
C8_NoLostUpdates ==
    (\A r \in DOMAIN requests : requests[r].pc = "done") =>
        \A r \in DOMAIN requests :
            \E k \in 1..Len(StoredHistory(requests[r].context.session_id)) :
                LET d == StoredHistory(requests[r].context.session_id)[k]
                IN  d.role = "assistant" /\ d.content[1] = r


(***************************************************************************)
(* Context history: claims C11 to C13                                      *)
(***************************************************************************)
History(r) == requests[r].context.message_history
BuildStep(r) == requests[r].pc = "idle" /\ requests'[r].pc = "built"
AddStep(r) == requests[r].pc = "built" /\ requests'[r].adds = requests[r].adds + 1

\* C11: the history of a Context only grows: build_context yields the session's
\* stored history with the new user message appended last, each
\* add_message_to_context appends exactly one message at the end and keeps the
\* earlier ones in place, so that after build_context and two
\* add_message_to_context calls the length is the initial length plus 3.
C11_HistoryOnlyGrows ==
    [][\A r \in DOMAIN requests :
          /\ BuildStep(r) =>
                LET sid == requests'[r].context.session_id
                    stored == DictGet(sessions[sid].context, "message_history", <<>>)
                    h == requests'[r].context.message_history
                IN  /\ h = Append(LoadAll(stored), h[Len(h)])
                    /\ h[Len(h)].role = "user"
                    /\ h[Len(h)].content = <<r, requests[r].turn, 0>>
                    /\ requests'[r].base = Len(stored)
          /\ AddStep(r) =>
                LET h == requests'[r].context.message_history
                IN  /\ Len(h) = Len(History(r)) + 1
                    /\ SubSeq(h, 1, Len(History(r))) = History(r)
                    /\ h[Len(h)].content = <<r, requests[r].turn, requests'[r].adds>>
          /\ requests'[r].pc \in {"built", "done"} =>
                Len(requests'[r].context.message_history)
                    = requests'[r].base + 1 + requests'[r].adds]_vars

\* A Context built on a stored history has had two messages added.
C11_Witness ==
    \E r \in DOMAIN requests :
        /\ requests[r].pc = "done"
        /\ requests[r].adds = 2
        /\ requests[r].base > 0
        /\ Len(History(r)) = requests[r].base + 3

\* The history turn t starts with: the user message and the reply of each
\* earlier turn, in order, then the user message of turn t.
TurnHistory(h, r, t) ==
    /\ Len(h) = 2 * (t - 1) + 1
    /\ \A k \in 1..t :
          /\ h[2 * k - 1].role = "user"
          /\ h[2 * k - 1].content = <<r, k, 0>>
          /\ k < t => /\ h[2 * k].role = "assistant"
                      /\ h[2 * k].content = <<r, k, 1>>

\* C12: after add_message_to_context returns for an active (and not expired)
\* session, the session's stored history is the Context's history; so when the
\* turns on a session run one after another, the build_context of turn n+1
\* yields the 2n earlier messages in their order and then the new user message.
C12_PersistedAcrossTurns ==
    [][\A r \in DOMAIN requests :
          /\ AddStep(r) =>
                LET sid == requests[r].context.session_id
                IN  (sessions[sid].is_active /\ ~is_expired(sessions[sid])) =>
                        /\ requests'[r].written
                        /\ LoadAll(DictGet(sessions'[sid].context, "message_history", <<>>))
                              = requests'[r].context.message_history
          /\ BuildStep(r) =>
                TurnHistory(requests'[r].context.message_history, r,
                            requests'[r].turn)]_vars

\* The third turn of a conversation has built its Context.
C12_Witness ==
    \E r \in DOMAIN requests :
        /\ requests[r].pc = "built"
        /\ requests[r].turn = 3
        /\ Len(History(r)) = 5

\* The session id names no stored session, or a closed or expired one.
Unavailable(sid) ==
    \/ sid \notin SessionIds
    \/ ~sessions[sid].is_active
    \/ Idle(sessions[sid]) > session_timeout

\* C13: build_context for a session id that is absent, expired or closed fails
\* with the not-found error, creates no session, builds no Context and leaves
\* every other session's record as it was.
C13_BuildContextNotFound ==
    [][\A r \in DOMAIN requests : \A sid \in CallerIds :
          (requests[r].pc = "idle" /\ requests'[r].pc \in {"built", "failed"}
              /\ ret'.arg = sid /\ Unavailable(sid)) =>
                /\ requests'[r].pc = "failed"
                /\ ret' = Ret("build_context", sid, "error")
                /\ requests'[r].context = NoContext
                /\ Len(sessions') = Len(sessions)
                /\ \A o \in SessionIds : o # sid => sessions'[o] = sessions[o]
                /\ sid \in SessionIds => ~sessions'[sid].is_active]_vars

\* build_context has just failed on an expired session while another session
\* is active.
C13_Witness ==
    /\ ret.op = "build_context"
    /\ ret.val = "error"
    /\ Len(sessions) = 2
    /\ ret.arg \in SessionIds
    /\ now - sessions[ret.arg].last_activity > session_timeout
    /\ \E o \in SessionIds : o # ret.arg /\ sessions[o].is_active


(***************************************************************************)
(* The sweep scenario: the clock advances and the background sweep runs    *)
(* (_cleanup_loop never ends unless cancelled), both weakly fair.          *)
(***************************************************************************)
SweepInit ==
    /\ now = 0
    /\ sessions = <<>>
    /\ budget = [creates |-> MaxSweepSessions, updates |-> 0]
    /\ ret = Ret("init", 0, "none")
    /\ RegIdle
    /\ LibIdle
    /\ CtxIdle

SweepNext ==
    \/ Tick /\ UNCHANGED nonStoreVars
    \/ \E u \in StoreUsers : create_session(u, "m0") /\ UNCHANGED nonStoreVars
    \/ \E sid \in CallerIds : get_session(sid) /\ UNCHANGED nonStoreVars
    \/ \E sid \in CallerIds : close_session(sid) /\ UNCHANGED nonStoreVars
    \/ _cleanup_expired_sessions /\ UNCHANGED nonStoreVars

SpecSweep ==
    /\ SweepInit
    /\ [][SweepNext]_vars
    /\ WF_vars(Tick /\ UNCHANGED nonStoreVars)
    /\ WF_vars(_cleanup_expired_sessions /\ UNCHANGED nonStoreVars)

\* C10: right after a sweep run no session is both active and idle for longer
\* than the timeout; and with the sweep and the clock fair, a session that is
\* not accessed again (its last_activity stays t) eventually becomes inactive.
C10_SweepClosesExpired ==
    /\ [](ret.op = "sweep" =>
            \A sid \in SessionIds :
                ~(sessions[sid].is_active /\ Idle(sessions[sid]) > session_timeout))
    /\ \A sid \in 1..MaxSweepSessions :
        \A t \in 0..(MaxTime - session_timeout - 1) :
            (sid \in SessionIds /\ sessions[sid].last_activity = t)
                ~> (/\ sid \in SessionIds
                    /\ ~sessions[sid].is_active \/ sessions[sid].last_activity # t)

\* C10 witness: the sweep has just closed two sessions that were idle for
\* longer than the timeout.
C10_Witness ==
    /\ ret.op = "sweep"
    /\ Len(sessions) >= 2
    /\ \A sid \in SessionIds :
        ~sessions[sid].is_active /\ Idle(sessions[sid]) > session_timeout

(***************************************************************************)
(* Engine requests: claims C29, C30                                        *)
(***************************************************************************)
EngineBuildStep(r) == requests[r].pc = "idle" /\ requests'[r].pc \in {"built", "failed"}
EngineReplyStep(r) == requests[r].pc = "built" /\ requests'[r].pc = "done"
StoredIn(ss, sid) == DictGet(ss[sid].context, "message_history", <<>>)

\* C29: process_message with a session id that is absent, expired or closed
\* raises the not-found error: no Reply is returned then or later, no session
\* is created and no stored history changes. process_message without a
\* session id creates exactly one session, for the user of the request, builds
\* the Context in it and answers the request in it.
C29_MissingSessionRaises ==
    [][\A r \in Requests :
          /\ requests'[r].pc = "failed" =>
                /\ requests'[r].response = NewRequest.response
                /\ requests'[r].context = NoContext
          /\ EngineBuildStep(r) /\ requests'[r].session_id # 0
                /\ Unavailable(requests'[r].session_id) =>
                /\ requests'[r].pc = "failed"
                /\ ret' = Ret("process_message", requests'[r].session_id, "error")
                /\ Len(sessions') = Len(sessions)
                /\ \A o \in SessionIds : StoredIn(sessions', o) = StoredIn(sessions, o)
          /\ EngineBuildStep(r) /\ requests'[r].session_id = 0 =>
                /\ Len(sessions') = Len(sessions) + 1
                /\ sessions'[Len(sessions')].user_id = requests'[r].user_id
                /\ sessions'[Len(sessions')].is_active
                /\ requests'[r].pc = "built"
                /\ requests'[r].context.session_id = Len(sessions')
          /\ EngineReplyStep(r) =>
                /\ Len(sessions') = Len(sessions)
                /\ requests'[r].context.session_id = requests[r].context.session_id
                /\ requests'[r].response.status \in {"success", "partial", "error"}]_vars

\* one request has failed on a stored session that had expired or was closed,
\* the other one came without a session id and has been answered
C29_Witness ==
    /\ requests[1].pc = "failed"
    /\ requests[1].session_id \in SessionIds
    /\ requests[2].pc = "done"
    /\ requests[2].session_id = 0

\* C30: every Context built carries a correlation id that no other request's
\* Context carries, and the Response returned for a request carries the
\* correlation id of the Context built for it.
C30_CorrelationIdThreaded ==
    /\ \A r \in Requests :
          requests[r].pc \in {"built", "done"} =>
             requests[r].context.correlation_id # NoCorrelationId
    /\ \A r1 \in Requests : \A r2 \in Requests \ {r1} :
          requests[r1].context.correlation_id # NoCorrelationId =>
             requests[r1].context.correlation_id # requests[r2].context.correlation_id
    /\ \A r \in Requests :
          requests[r].pc = "done" =>
             requests[r].response.correlation_id = requests[r].context.correlation_id

(***************************************************************************)
(* Session manager lifecycle: claims C31, C37                              *)
(***************************************************************************)
\* C31: when stop has returned the expiry-sweep task is cancelled and has been
\* awaited, every session of the store is inactive, and from the moment of
\* the cancellation on no sweep runs.
C31_StopCancelsAndCloses ==
    /\ ret = Ret("stop", 0, "none") =>
          /\ cleanup_task \in {"none", "cancelled"}
          /\ \A sid \in SessionIds : ~sessions[sid].is_active
    /\ cleanup_task \in {"cancelling", "cancelled"} => ret.op # "sweep"

\* stop has returned after cancelling a running task and closing two sessions
C31_Witness ==
    /\ ret = Ret("stop", 0, "none")
    /\ cleanup_task = "cancelled"
    /\ Len(sessions) >= 2
    /\ \A sid \in SessionIds : EventsOf(sid) = 1

\* C37: every session is closed at most once: the expiry sweep and the cap
\* eviction of create_session publish a session_closed event only for a
\* session that is active, and never a second one for a session id.
C37_ClosedAtMostOnce ==
    [][\A sid \in SessionIds :
          (ret'.op \in {"sweep", "create_session"}
              /\ DictGet(session_closed', sid, 0) > EventsOf(sid)) =>
                /\ sessions[sid].is_active
                /\ DictGet(session_closed', sid, 0) <= 1]_vars

(***************************************************************************)
(* Targeted dispatch and reconnects: claims C32, C33                       *)
(***************************************************************************)
TargetedCall(call) ==
    /\ call.pc # "idle"
    /\ call.target # "none"
    /\ Registered(call.snap, call.target)

\* C32: call_tool with a server name calls only that server, whether or not
\* its capability map lists the tool; if that server fails the call fails with
\* no other server tried, and no other server is touched.
C32_NamedServerOnly ==
    [][/\ TargetedCall(mcp_call') =>
            /\ Len(mcp_call'.log) <= 1
            /\ \A k \in 1..Len(mcp_call'.log) : mcp_call'.log[k].name = mcp_call'.target
            /\ mcp_call'.todo \in {<<>>, <<mcp_call'.target>>}
            /\ mcp_call'.pc = "returned" => mcp_call'.result = mcp_call'.target
            /\ mcp_call'.pc = "raised" =>
                  /\ mcp_call'.error = "all_failed"
                  /\ \A k \in 1..Len(mcp_call'.log) : mcp_call'.log[k].outcome # "ok"
       /\ (TargetedCall(mcp_call) /\ mcp_call.pc = "loop") =>
            \A i \in 1..Len(servers) :
                servers[i].name # mcp_call.target => servers'[i] = servers[i]]_vars

\* the named server lists no tool and its call failed, while another registered
\* server advertises the tool
C32_Witness ==
    /\ TargetedCall(mcp_call)
    /\ AllFailed(mcp_call)
    /\ mcp_call.log # <<>>
    /\ mcp_call.log[1].outcome = "failed"
    /\ ~SeqContains(AdvertisingServers(mcp_call.snap), mcp_call.target)
    /\ AdvertisingServers(mcp_call.snap) # <<>>

\* the turn of a dispatch loop that takes the next candidate
Turn_(call, callNext) == call.pc = "loop" /\ Len(callNext.log) = Len(call.log) + 1
LastEntry(call) == call.log[Len(call.log)]

\* what C33 says of one turn: e is the turn's log entry, a the candidate before
\* the turn and b after it
TurnAsStated(call, callNext, e, a, b) ==
    /\ e.name = Head(call.todo)
    /\ a.is_connected => e.outcome # "skipped"
    /\ e.outcome = "skipped" =>
          /\ ~a.is_connected
          /\ ~b.is_connected
          /\ b.made = a.made + 1
          /\ b.request_count = a.request_count
          /\ b.error_count = a.error_count
          /\ callNext.pc = "loop"
          /\ callNext.todo = Tail(call.todo)
    /\ (~a.is_connected /\ e.outcome # "skipped") =>
          /\ b.made > a.made
          /\ b.request_count > a.request_count
    /\ e.outcome = "ok" =>
          /\ b.is_connected
          /\ b.made = a.made + (IF a.is_connected THEN 0 ELSE 1)
    /\ e.outcome = "failed" =>
          /\ b.made = a.made + (IF a.is_connected THEN 1 ELSE 2)
          /\ b.error_count > a.error_count
          /\ callNext.pc = "loop"
          /\ callNext.todo = Tail(call.todo)

\* C33: in a dispatch a candidate that is not connected is first reconnected;
\* if that fails it is skipped, uncalled and with its error counter as it was,
\* and the dispatch goes on; if it succeeds the call is attempted. After a
\* failed call the candidate is disconnected and reconnected, and the dispatch
\* goes on whatever the reconnect gives.
C33_ReconnectAroundCalls ==
    [][/\ Turn_(llm_call, llm_call') =>
            LET e == LastEntry(llm_call')
                i == IndexOf(providers, e.name)
            IN  TurnAsStated(llm_call, llm_call', e, providers[i], providers'[i])
       /\ Turn_(mcp_call, mcp_call') =>
            LET e == LastEntry(mcp_call')
                i == IndexOf(servers, e.name)
            IN  TurnAsStated(mcp_call, mcp_call', e, servers[i], servers'[i])]_vars

\* a dispatch skipped its first candidate, whose reconnect failed, and went on
\* to the second, whose call failed and whose reconnect after it failed too
C33_Witness ==
    /\ Len(llm_call.log) >= 2
    /\ llm_call.log[1].outcome = "skipped"
    /\ llm_call.log[2].outcome = "failed"
    /\ \E i \in 1..Len(providers) :
          providers[i].name = llm_call.log[2].name /\ ~providers[i].is_connected

(***************************************************************************)
(* Tool-server handle counters: claim C34                                  *)
(***************************************************************************)
HandleSendStep == mgr_ret'.op = "send_request" /\ reg_budget'.calls < reg_budget.calls

\* C34: on every tool-server handle 0 <= error_count <= request_count; a
\* send_request on a connected handle adds exactly 1 to request_count, and 1 to
\* error_count exactly when the transport raised; on a handle that is not
\* connected it raises a connection error and changes neither counter.
C34_HandleCounters ==
    [][/\ \A i \in 1..Len(servers') :
            /\ 0 <= servers'[i].error_count
            /\ servers'[i].error_count <= servers'[i].request_count
       /\ HandleSendStep =>
            LET i == IndexOf(servers, mgr_ret'.name)
                a == servers[i]
                b == servers'[i]
            IN  /\ \A j \in 1..Len(servers) : j # i => servers'[j] = servers[j]
                /\ (a.is_connected /\ a.transport # 0) =>
                      /\ mgr_ret'.val \in {"response", "exception"}
                      /\ b.request_count = a.request_count + 1
                      /\ b.error_count = a.error_count
                                         + (IF mgr_ret'.val = "exception" THEN 1 ELSE 0)
                /\ ~(a.is_connected /\ a.transport # 0) =>
                      /\ mgr_ret'.val = "not_connected"
                      /\ b = a]_vars

\* a handle that has counted requests, an error among them, is not connected
\* and has just refused a request
C34_Witness ==
    /\ mgr_ret.op = "send_request"
    /\ mgr_ret.val = "not_connected"
    /\ \E i \in 1..Len(servers) :
          /\ servers[i].name = mgr_ret.name
          /\ servers[i].error_count >= 1
          /\ servers[i].request_count > servers[i].error_count

(***************************************************************************)
(* update_session on the context blob: claim C35                           *)
(***************************************************************************)
\* C35: update_session with a "context" or "metadata" entry merges the given
\* keys into the session's blob: a key of the blob that the update does not
\* name is still there, with its value, after the update.
C35_UpdateMerges ==
    [][(ret'.op = "update_session" /\ ret'.val = "true"
            /\ budget'.updates < budget.updates) =>
          LET old == sessions[ret'.arg].context
              new == sessions'[ret'.arg].context
          IN  \A k \in DOMAIN old :
                  /\ k \in DOMAIN new
                  /\ new[k] # old[k] => \E c \in CallerContexts :
                                            k \in DOMAIN c /\ c[k] = new[k]]_vars

(***************************************************************************)
(* Success replies: claim C36                                              *)
(***************************************************************************)
\* the provider registry was called and the call raised
ModelCallFailed ==
    /\ \E i \in 1..Len(router.calls) : router.calls[i].to = "llm"
    /\ ~router.llm_ok

\* C36: a Reply has status success only when the call that produced its content
\* succeeded; when the provider-registry call fails the status is error on
\* every path, the hybrid path after a successful tool step included.
C36_SuccessOnlyAfterSuccess ==
    router.pc = "done" =>
       /\ ModelCallFailed => router.response.status = "error"
       /\ router.response.status = "success" =>
             /\ router.calls # <<>>
             /\ LET last == router.calls[Len(router.calls)]
                IN  /\ last.to = "llm" => router.llm_ok
                    /\ last.to = "mcp" => router.tool_ok

(***************************************************************************)
(* The current message among the turns sent: claim C38                     *)
(***************************************************************************)
\* the places among the turns sent for request r that hold r's own user
\* message: the copy build_context put into the history, and the turn made
\* from context.message
OwnMessageAt(r, messages) ==
    {k \in 1..Len(messages) :
        /\ messages[k].role = "user"
        /\ \/ messages[k].content = <<r, requests[r].turn, 0>>
           \/ k = Len(messages) /\ messages[k].content = requests[r].message}

\* C38: the turns sent to the provider for a request whose Context was built
\* by build_context contain the current user message exactly once.
C38_CurrentMessageOnce ==
    \A r \in Requests :
        requests[r].pc = "done" =>
            \A i \in 1..Len(requests[r].calls) :
                requests[r].calls[i].to = "llm" =>
                    Cardinality(OwnMessageAt(r, requests[r].calls[i].messages)) = 1

(***************************************************************************)
(* Health checks and disconnected entries: claim C39                       *)
(***************************************************************************)
HealthPassStep == mgr_ret'.op = "health_check" /\ reg_budget'.calls < reg_budget.calls

\* what a pass leaves of an entry that was marked disconnected before it: the
\* same place in the map, the flag still down, no connection object made and no
\* connect or disconnect among the calls of the pass
LeftDisconnected(before, after, i, ops) ==
    /\ Len(after) = Len(before)
    /\ after[i].name = before[i].name
    /\ ~after[i].is_connected
    /\ after[i].made = before[i].made
    /\ \A k \in 1..Len(ops) :
          ops[k][1] = before[i].name => ops[k][2] = "validate_connection"

\* C39: a health-check pass never changes the connected flag of an entry that
\* is already marked disconnected: it attempts no reconnect for it.
C39_PassLeavesDisconnected ==
    [][HealthPassStep =>
          /\ mgr_ret'.registry = "mcp" =>
                \A i \in 1..Len(servers) :
                    ~servers[i].is_connected =>
                        LeftDisconnected(servers, servers', i, mgr_ret'.ops)
          /\ mgr_ret'.registry = "llm" =>
                \A i \in 1..Len(providers) :
                    ~providers[i].is_connected =>
                        LeftDisconnected(providers, providers', i, mgr_ret'.ops)]_vars

\* a pass has just gone over a server entry that was disconnected before it:
\* the entry was reported unhealthy and only validated
C39_Witness ==
    /\ mgr_ret.op = "health_check"
    /\ mgr_ret.registry = "mcp"
    /\ \E i \in 1..Len(servers) :
          /\ ~servers[i].is_connected
          /\ servers[i].made >= 2
          /\ mgr_ret.val[servers[i].name] = FALSE
          /\ \A k \in 1..Len(mgr_ret.ops) :
                mgr_ret.ops[k][1] = servers[i].name =>
                    mgr_ret.ops[k][2] = "validate_connection"

(***************************************************************************)
(* Registry changes during a pass or a stop: claim C40                     *)
(***************************************************************************)
WalkEnds(op) ==
    /\ Walking
    /\ iteration'.op = op
    /\ iteration'.state \in {"returned", "raised"}

\* C40: an add_server or remove_server that runs while a health-check pass or
\* stop is in progress does not abort it: the pass still validates every entry
\* that stayed registered while it ran, and stop still disconnects every entry
\* and leaves the registry empty.
C40_WalkSurvivesChanges ==
    [][/\ WalkEnds("health_check") =>
            iteration'.stayed \subseteq DOMAIN iteration'.status
       /\ WalkEnds("stop") => servers' = <<>>]_vars

====
